---- MODULE Spec2Model ----
(***************************************************************************)
(* Model of the field-generation and row-assembly engine of               *)
(* test_data_generator: src/src/generator.py (DataGenerator) and          *)
(* src/src/fields/base.py, src/src/fields/extended.py (field generators). *)
(*                                                                         *)
(* Conventions                                                             *)
(*  - An optional value (a dict key that may be absent, an argument that   *)
(*    may be None) is a sequence: <<>> when absent, <<v>> when present.    *)
(*  - A Python dict is a sequence of entries in insertion order.           *)
(*  - A generated value is a record [k, v]: k names its Python type and v  *)
(*    is an integer: the integer itself, a float in fixed point (Scale     *)
(*    ticks per unit), a day number for a date, a token for a uuid.        *)
(*  - Numeric parameters of float and money fields are in ticks.           *)
(***************************************************************************)
EXTENDS Integers, Sequences, FiniteSets, TLC

VARIABLES
    rng,            \* the process-wide state of the random module: [seed, pos]
    callerCfg,      \* callerCfg[e]: the config_dict as the caller wrote it for engine e
    self_config,    \* self_config[e]: self.config, the very object the caller handed over
    constructed,    \* constructed[e]: DataGenerator.__init__ returned for e
    is_multi_table, \* self.is_multi_table
    fields,         \* self.fields: field instances, single-table mode
    data,           \* self.data: the rows, single-table mode
    tables,         \* self.tables: tables with their field instances
    table_data,     \* self.table_data: the rows of each table
    outcome,        \* outcome[e]: how the last generate() of e ended
    calls,          \* calls[e]: what the last generate() did: its field.generate calls and
                    \*   its list.append calls, in order
    rowBase,        \* rowBase[e][t]: rows built for table t before the build of the stored list
    rowsEver,       \* rowsEver[e][t]: rows built for table t since construction
    gens,           \* gens[e]: number of generate() calls on e
    lastRows,       \* lastRows[e]: the rows argument of the last generate()
    isRun,          \* isRun[e]: the last generate() of e directly followed its construction
    lastEntropy,    \* lastEntropy[e]: the operating-system outcomes the last generate() met
    lastOp,         \* the last operation executed in the process
    validate_calls, \* validate_calls[e]: the validate() calls on e: how many, the list the
                    \*   last one returned and the list the one before returned
    held,           \* held[e]: the object the first successful generate() of e returned
                    \*   to the caller: what it held when returned, what it holds now
    unit,           \* a field instance used on its own, as the unit tests use one:
                    \*   [field, count, value, raised, valid]; valid is what
                    \*   field.validate(value) returned for the last value, if asked
    parser          \* a SchemaParser and its _call_ai_api call: [max_retries, calls,
                    \*   status, attempts, log, error]; log is what the API answered
                    \*   to each attempt of the call, error the exception of the last

vars == <<rng, callerCfg, self_config, constructed, is_multi_table, fields, data, tables,
          table_data, outcome, calls, rowBase, rowsEver,
          gens, lastRows, isRun, lastEntropy, lastOp, validate_calls, held, unit,
          parser>>

----------------------------------------------------------------------------
(* Bounds of the model *)

MaxGenerates == 3   \* generate() calls in the process
MaxRowsArg   == 1   \* largest explicit rows argument
EntropyLen   == 2   \* independent OS-entropy outcomes per generate()

(* a scenario has two engines in one process: a first and a second *)
Engines == {1, 2}

(* Resolution of the model's arithmetic *)
Scale   == 10       \* fixed-point ticks per unit for float values

----------------------------------------------------------------------------
(* dict.get(key, default) on an optional value *)
Get(o, d) == IF o = <<>> THEN d ELSE o[1]

Max2(a, b) == IF a >= b THEN a ELSE b
Min2(a, b) == IF a <= b THEN a ELSE b

----------------------------------------------------------------------------
(* The random module: one process-wide generator.  A state is the seed it  *)
(* was last seeded with and the number of draws made since; the draw at a  *)
(* state is a fixed function of both.                                      *)

(* the standard-normal deviates a draw can stand for, in tenths *)
ZTenths == <<-25, -12, -5, -1, 1, 5, 12, 25>>
(* distinct outcomes of one draw *)
RandMod == Len(ZTenths)

RawDraw(r) == ((r.seed + 1) * 3 + r.pos * 5 + (r.pos \div RandMod)) % RandMod

Advance(r) == [r EXCEPT !.pos = @ + 1]

(* random.seed(seed) *)
Reseed(seed) == [seed |-> seed, pos |-> 0]

(* random.randint(a, b): raises ValueError when a > b *)
RandintRaises(a, b) == a > b
Randint(r, a, b) == a + ((RawDraw(r) * (b - a + 1)) \div RandMod)

(* random.uniform(a, b) = a + (b - a) * random(), in ticks *)
Uniform(r, a, b) == a + (((b - a) * RawDraw(r)) \div RandMod)

(* random.normalvariate(mu, sigma) = mu + z * sigma, in ticks *)
Normalvariate(r, mu, sigma) == mu + ((sigma * ZTenths[RawDraw(r) + 1]) \div 10)

(* int(x) of a float in ticks: truncation toward zero *)
IntOf(t) == IF t >= 0 THEN t \div Scale ELSE -((-t) \div Scale)

(* round(x, precision) of a float in ticks: to the nearest multiple of     *)
(* 10^-precision, ties to the even multiple                                *)
Quantum(precision) == IF precision <= 0 THEN Scale ELSE 1
Round(t, precision) ==
    LET q  == Quantum(precision)
        lo == (t \div q) * q
        r  == t - lo
    IN  IF 2 * r < q THEN lo
        ELSE IF 2 * r > q THEN lo + q
        ELSE IF (lo \div q) % 2 = 0 THEN lo ELSE lo + q

(* ''.join(random.choice(chars) for _ in range(length)): each character    *)
(* is one draw; the string is represented by its length and a digest of    *)
(* the characters drawn                                                    *)
StrBase == 1000
RECURSIVE RandomChars(_, _, _)
RandomChars(r, n, h) ==
    IF n <= 0 THEN [rng |-> r, digest |-> h]
    ELSE RandomChars(Advance(r), n - 1, (h * 3 + RawDraw(r) + 1) % StrBase)

(* Values *)
IntVal(n)   == [k |-> "int",   v |-> n]
FloatVal(t) == [k |-> "float", v |-> t]
StrVal(len, digest) == [k |-> "str", v |-> len * StrBase + digest]
DateVal(d)  == [k |-> "date",  v |-> d]
UuidVal(u)  == [k |-> "uuid",  v |-> u]
NoneVal     == [k |-> "none",  v |-> 0]

(* uuid.uuid4() and uuid.uuid1() take their bits from the operating        *)
(* system (os.urandom, clock and node), never from the random module: the  *)
(* n-th such call of a generate() returns the n-th outcome of es.          *)
EntropyVals == {0, 1}
EntropySeqs == [1 .. EntropyLen -> EntropyVals]
EntropyAt(es, n) == es[((n - 1) % Len(es)) + 1]
(* the outcomes a generate() that asked n times has met *)
Consumed(es, n) == [k \in 1 .. n |-> EntropyAt(es, k)]
(* uuid.uuid3 / uuid.uuid5 of a fixed namespace and name *)
Uuid3Token == 3
Uuid5Token == 5

----------------------------------------------------------------------------
(* Texts: a text is a sequence of one-character strings *)

TextVal(chars) == [k |-> "text", v |-> chars]

DigitChars == <<"0", "1", "2", "3", "4", "5", "6", "7", "8", "9">>
IsDigit(c) == \E d \in 1 .. Len(DigitChars) : DigitChars[d] = c
DigitOf(c) == (CHOOSE d \in 1 .. Len(DigitChars) : DigitChars[d] = c) - 1

(* str(n).zfill(2), zfill(3), zfill(4) of a number that fits *)
TwoDigits(n) == <<DigitChars[(n \div 10) + 1], DigitChars[(n % 10) + 1]>>
ThreeDigits(n) == <<DigitChars[(n \div 100) + 1]>> \o TwoDigits(n % 100)
FourDigits(n) == TwoDigits(n \div 100) \o TwoDigits(n % 100)

(* the year, month and day of a day number (day 0 is 2000-01-01), by the   *)
(* proleptic Gregorian calendar datetime uses; 730425 days lie between     *)
(* 0000-03-01 and 2000-01-01                                               *)
CivilOf(day) ==
    LET z   == day + 730425
        era == z \div 146097
        doe == z - era * 146097
        yoe == (doe - (doe \div 1460) + (doe \div 36524) - (doe \div 146096)) \div 365
        doy == doe - (365 * yoe + (yoe \div 4) - (yoe \div 100))
        mp  == (5 * doy + 2) \div 153
        m   == IF mp < 10 THEN mp + 3 ELSE mp - 9
    IN  [y |-> yoe + era * 400 + (IF m <= 2 THEN 1 ELSE 0), m |-> m,
         d |-> doy - ((153 * mp + 2) \div 5) + 1]

(* date.strftime(format) for the formats %Y-%m-%d, %d/%m/%Y and %Y%m%d *)
Strftime(day, format) ==
    LET c == CivilOf(day)
    IN  CASE format = "%d/%m/%Y" ->
                TwoDigits(c.d) \o <<"/">> \o TwoDigits(c.m) \o <<"/">> \o FourDigits(c.y)
          [] format = "%Y%m%d" -> FourDigits(c.y) \o TwoDigits(c.m) \o TwoDigits(c.d)
          [] OTHER ->
                FourDigits(c.y) \o <<"-">> \o TwoDigits(c.m) \o <<"-">> \o TwoDigits(c.d)

----------------------------------------------------------------------------
(* Field declarations.  A declaration is [name, type, config]; config has  *)
(* every key the field classes read, each optional.                        *)

NoConfig ==
    [min |-> <<>>, max |-> <<>>, distribution |-> <<>>, start |-> <<>>,
     increment |-> <<>>, mean |-> <<>>, std_dev |-> <<>>, precision |-> <<>>,
     generator |-> <<>>, min_length |-> <<>>, max_length |-> <<>>,
     version |-> <<>>, start_date |-> <<>>, end_date |-> <<>>, format |-> <<>>,
     domain |-> <<>>, gender |-> <<>>, birth_date_range |-> <<>>,
     dependencies |-> <<>>]

Decl(name, type, config) == [name |-> name, type |-> type, config |-> config]

(* Dates are day numbers; day 0 is 2000-01-01, the default start_date *)
DefaultStartDate == 0

(* Field.__init__ : the attributes every field instance carries *)
Field(name, type, config) ==
    [name |-> name, type |-> type, config |-> config,
     dependencies |-> Get(config.dependencies, <<>>),
     min_value |-> 0, max_value |-> 0, distribution |-> "",
     start |-> 0, increment |-> 0, mean |-> 0, std_dev |-> 0,
     current_value |-> 0, precision |-> 0, generator |-> "",
     min_length |-> 0, max_length |-> 0, version |-> 0,
     start_date |-> 0, end_date |-> 0, date_format |-> "", domain |-> "",
     gender |-> <<>>, birth_date_range |-> <<0, 0>>]

StringField(name, type, config) ==
    [Field(name, type, config) EXCEPT
        !.generator  = Get(config.generator, "random_string"),
        !.min_length = Get(config.min_length, 5),
        !.max_length = Get(config.max_length, 20)]

(* IntegerField with the cursor starting on start instead of one step     *)
(* before it                                                               *)
IntegerFieldFromStart(name, type, config) ==
    [Field(name, type, config) EXCEPT
        !.min_value     = Get(config.min, 0),
        !.max_value     = Get(config.max, 100),
        !.distribution  = Get(config.distribution, "uniform"),
        !.start         = Get(config.start, 1),
        !.increment     = Get(config.increment, 1),
        !.mean          = Get(config.mean, 50),
        !.std_dev       = Get(config.std_dev, 10),
        !.current_value = Get(config.start, 1)]

IntegerField(name, type, config) ==
    LET start     == Get(config.start, 1)
        increment == Get(config.increment, 1)
    IN  [Field(name, type, config) EXCEPT
            !.min_value     = Get(config.min, 0),
            !.max_value     = Get(config.max, 100),
            !.distribution  = Get(config.distribution, "uniform"),
            !.start         = start,
            !.increment     = increment,
            !.mean          = Get(config.mean, 50),
            !.std_dev       = Get(config.std_dev, 10),
            !.current_value = start - increment]

FloatField(name, type, config) ==
    [Field(name, type, config) EXCEPT
        !.min_value    = Get(config.min, 0 * Scale),
        !.max_value    = Get(config.max, 100 * Scale),
        !.precision    = Get(config.precision, 2),
        !.distribution = Get(config.distribution, "uniform"),
        !.mean         = Get(config.mean, 50 * Scale),
        !.std_dev      = Get(config.std_dev, 10 * Scale)]

MoneyField(name, type, config) ==
    [Field(name, type, config) EXCEPT
        !.min_value    = Get(config.min, 0 * Scale),
        !.max_value    = Get(config.max, 10000 * Scale),
        !.precision    = Get(config.precision, 2),
        !.distribution = Get(config.distribution, "uniform"),
        !.mean         = Get(config.mean, 5000 * Scale),
        !.std_dev      = Get(config.std_dev, 1000 * Scale)]

(* now: the day datetime.now() falls on when the field is constructed *)
DateField(name, type, config, now) ==
    [Field(name, type, config) EXCEPT
        !.start_date   = Get(config.start_date, DefaultStartDate),
        !.end_date     = Get(config.end_date, now),
        !.date_format  = Get(config.format, "%Y-%m-%d"),
        !.distribution = Get(config.distribution, "uniform")]

(* EmailField.__init__: config['generator'] = 'email' is an item            *)
(* assignment on the mapping the declaration holds, made before            *)
(* StringField.__init__ reads it                                           *)
EmailConfig(config) == [config EXCEPT !.generator = <<"email">>]
EmailField(name, type, config) ==
    [StringField(name, type, EmailConfig(config)) EXCEPT
        !.domain = Get(config.domain, "example.com")]

(* IDCardField.__init__ (fields/extended.py): gender is None when absent;  *)
(* the default birth_date_range is 1960-01-01 .. 2005-12-31                *)
IDCardField(name, type, config) ==
    [StringField(name, type, config) EXCEPT
        !.gender           = config.gender,
        !.birth_date_range = Get(config.birth_date_range, <<-14610, 2191>>)]

UUIDField(name, type, config) ==
    [Field(name, type, config) EXCEPT !.version = Get(config.version, 4)]

(* FIELD_TYPE_MAPPING: the type tags the registry knows *)
FIELD_TYPE_MAPPING ==
    {"string", "integer", "float", "date", "datetime", "uuid", "money", "email",
     "id_card"}

(* create_field accepting every tag *)
CreateFieldNeverRaises(decl) == FALSE

(* create_field: raises for a tag outside the registry *)
CreateFieldRaises(decl) == decl.type \notin FIELD_TYPE_MAPPING

create_field(decl, now) ==
    CASE decl.type = "string"  -> StringField(decl.name, decl.type, decl.config)
      [] decl.type = "integer" -> IntegerField(decl.name, decl.type, decl.config)
      [] decl.type = "float"   -> FloatField(decl.name, decl.type, decl.config)
      [] decl.type = "money"   -> MoneyField(decl.name, decl.type, decl.config)
      [] decl.type \in {"date", "datetime"} ->
                                  DateField(decl.name, decl.type, decl.config, now)
      [] decl.type = "uuid"    -> UUIDField(decl.name, decl.type, decl.config)
      [] decl.type = "email"   -> EmailField(decl.name, decl.type, decl.config)
      [] decl.type = "id_card" -> IDCardField(decl.name, decl.type, decl.config)
      [] OTHER                 -> Field(decl.name, decl.type, decl.config)

----------------------------------------------------------------------------
(* field.generate(row_data).  The result is [raised, value, field, rng,    *)
(* ent]: whether the call raised, the value returned, the field instance   *)
(* after the call, the random module after the call, and the number of     *)
(* entropy outcomes consumed so far.                                       *)

Returned(value, f, r, n) ==
    [raised |-> FALSE, value |-> value, field |-> f, rng |-> r, ent |-> n]
Raised(f, r, n) ==
    [raised |-> TRUE, value |-> NoneVal, field |-> f, rng |-> r, ent |-> n]

(* IntegerField.generate, sequential: self._current_value += self.increment *)
SequentialStep(f) == [f EXCEPT !.current_value = @ + f.increment]

(* max(min_value, min(max_value, x)) *)
Clamp(f, x) == Max2(f.min_value, Min2(f.max_value, x))

IntegerGenerate(f, r, n) ==
    IF f.distribution = "sequential" THEN
        LET g == SequentialStep(f) IN Returned(IntVal(g.current_value), g, r, n)
    ELSE IF f.distribution = "normal" THEN
        LET value == Normalvariate(r, f.mean * Scale, f.std_dev * Scale)
        IN  Returned(IntVal(Clamp(f, IntOf(value))), f, Advance(r), n)
    ELSE IF RandintRaises(f.min_value, f.max_value) THEN Raised(f, r, n)
    ELSE Returned(IntVal(Randint(r, f.min_value, f.max_value)), f, Advance(r), n)

FloatGenerate(f, r, n) ==
    LET value == IF f.distribution = "normal"
                 THEN Normalvariate(r, f.mean, f.std_dev)
                 ELSE Uniform(r, f.min_value, f.max_value)
    IN  Returned(FloatVal(Round(value, f.precision)), f, Advance(r), n)

MoneyGenerate(f, r, n) ==
    LET value == IF f.distribution = "normal"
                 THEN Normalvariate(r, f.mean, f.std_dev)
                 ELSE Uniform(r, f.min_value, f.max_value)
    IN  Returned(FloatVal(Round(Clamp(f, value), f.precision)), f, Advance(r), n)

StringGenerate(f, r, n, es) ==
    IF f.generator = "uuid" THEN
        Returned(UuidVal(EntropyAt(es, n + 1)), f, r, n + 1)
    ELSE IF RandintRaises(f.min_length, f.max_length) THEN Raised(f, r, n)
    ELSE LET length == Randint(r, f.min_length, f.max_length)
             chars  == RandomChars(Advance(r), length, 0)
         IN  Returned(StrVal(Max2(length, 0), chars.digest), f, chars.rng, n)

(* EmailField.generate: randint(5, 15) characters of user name, one draw   *)
(* each, then "@" and the domain of the field                              *)
EmailVal(len, digest) == [k |-> "email", v |-> len * StrBase + digest]
EmailGenerate(f, r, n) ==
    LET username_length == Randint(r, 5, 15)
        chars           == RandomChars(Advance(r), username_length, 0)
    IN  Returned(EmailVal(username_length, chars.digest), f, chars.rng, n)

(* IDCardField.generate and IDCardField.validate (fields/extended.py) *)

area_codes ==
    << <<"1", "1", "0", "1", "0", "1">>,
       <<"1", "1", "0", "1", "0", "2">>,
       <<"1", "1", "0", "1", "0", "5">>,
       <<"1", "1", "0", "1", "0", "6">>,
       <<"3", "1", "0", "1", "0", "1">>,
       <<"3", "1", "0", "1", "0", "4">>,
       <<"3", "1", "0", "1", "0", "5">>,
       <<"3", "1", "0", "1", "0", "6">>,
       <<"4", "4", "0", "1", "0", "1">>,
       <<"4", "4", "0", "1", "0", "3">>,
       <<"4", "4", "0", "1", "0", "4">>,
       <<"4", "4", "0", "1", "0", "5">>,
       <<"5", "1", "0", "1", "0", "4">>,
       <<"5", "1", "0", "1", "0", "5">>,
       <<"5", "1", "0", "1", "0", "6">>,
       <<"5", "1", "0", "1", "0", "7">> >>

(* the weights and check codes of generate, and those of validate *)
GenerateWeights == <<7, 9, 10, 5, 8, 4, 2, 1, 6, 3, 7, 9, 10, 5, 8, 4, 2>>
ValidateWeights == <<7, 9, 10, 5, 8, 4, 2, 1, 6, 3, 7, 9, 10, 25489, 8, 4, 2>>
check_codes == <<"1", "0", "X", "9", "8", "7", "6", "5", "4", "3", "2">>

(* sum(int(first_17[i]) * weights[i] for i in range(17)), from place i on *)
RECURSIVE WeightedSum(_, _, _)
WeightedSum(first_17, weights, i) ==
    IF i > Len(weights) THEN 0
    ELSE DigitOf(first_17[i]) * weights[i] + WeightedSum(first_17, weights, i + 1)

(* int(sequence_code) | 1 for 'M', & ~1 for 'F' *)
GenderCode(gender, code) ==
    IF gender = <<"M">> THEN (IF code % 2 = 0 THEN code + 1 ELSE code)
    ELSE IF gender = <<"F">> THEN (IF code % 2 = 1 THEN code - 1 ELSE code)
    ELSE code

(* three draws: random.choice(area_codes), randint(0, days_diff),          *)
(* randint(1, 999)                                                         *)
IDCardGenerate(f, r, n) ==
    LET area_code  == area_codes[((RawDraw(r) * Len(area_codes)) \div RandMod) + 1]
        start_date == f.birth_date_range[1]
        days_diff  == f.birth_date_range[2] - start_date
        r1         == Advance(r)
    IN  IF RandintRaises(0, days_diff) THEN Raised(f, r1, n)
        ELSE LET birth_date_str == Strftime(start_date + Randint(r1, 0, days_diff),
                                            "%Y%m%d")
                 r2             == Advance(r1)
                 sequence_code  == ThreeDigits(GenderCode(f.gender, Randint(r2, 1, 999)))
                 first_17       == area_code \o birth_date_str \o sequence_code
                 total          == WeightedSum(first_17, GenerateWeights, 1)
             IN  Returned(TextVal(first_17 \o <<check_codes[(total % 11) + 1]>>),
                          f, Advance(r2), n)

(* validate(value): False for a value that is not a str of 18 characters,  *)
(* False when int() raises on one of the first 17, else whether the last   *)
(* character is the check code of the first 17                             *)
IDCardValidate(value) ==
    /\ value.k = "text"
    /\ Len(value.v) = 18
    /\ \A i \in 1 .. 17 : IsDigit(value.v[i])
    /\ value.v[18] = check_codes[(WeightedSum(value.v, ValidateWeights, 1) % 11) + 1]

DateGenerate(f, r, n) ==
    LET days_diff == f.end_date - f.start_date
    IN  IF days_diff <= 0 THEN Returned(DateVal(f.start_date), f, r, n)
        ELSE Returned(DateVal(f.start_date + Randint(r, 0, days_diff)),
                      f, Advance(r), n)

UUIDGenerate(f, r, n, es) ==
    IF f.version = 3 THEN Returned(UuidVal(Uuid3Token), f, r, n)
    ELSE IF f.version = 5 THEN Returned(UuidVal(Uuid5Token), f, r, n)
    ELSE Returned(UuidVal(EntropyAt(es, n + 1)), f, r, n + 1)

(* dispatch on the class create_field chose; row_data is passed to every   *)
(* generator and read by none of them                                      *)
FieldGenerate(f, row_data, r, n, es) ==
    CASE f.type = "integer" -> IntegerGenerate(f, r, n)
      [] f.type = "float"   -> FloatGenerate(f, r, n)
      [] f.type = "money"   -> MoneyGenerate(f, r, n)
      [] f.type = "string"  -> StringGenerate(f, r, n, es)
      [] f.type \in {"date", "datetime"} -> DateGenerate(f, r, n)
      [] f.type = "uuid"    -> UUIDGenerate(f, r, n, es)
      [] f.type = "email"   -> EmailGenerate(f, r, n)
      [] f.type = "id_card" -> IDCardGenerate(f, r, n)
      [] OTHER              -> Raised(f, r, n)

----------------------------------------------------------------------------
(* Row Assembler and Dataset Builder: DataGenerator.generate               *)

DefaultRows == 100

(* rows or self.config.get('config', {}).get('rows', 100): None and 0 are  *)
(* both falsy                                                              *)
RowsToGenerate(cfg, rows) ==
    IF rows # <<>> /\ rows[1] # 0 THEN rows[1]
    ELSE Get(cfg.config.rows, DefaultRows)

(* TableRows without the table's own override *)
TableRowsRunLevel(cfg, table) == Get(cfg.config.rows, DefaultRows)

(* table['config'].get('rows', self.config.get('config', {}).get('rows', 100)) *)
TableRows(cfg, table) ==
    Get(table.config.rows, Get(cfg.config.rows, DefaultRows))

(* Items reordered by dependencies: the fields that name none first *)
ItemsDependentsLast(flds) ==
    SelectSeq([k \in 1 .. Len(flds) |-> k], LAMBDA k : flds[k].dependencies = <<>>)
        \o SelectSeq([k \in 1 .. Len(flds) |-> k], LAMBDA k : flds[k].dependencies # <<>>)

(* for field_name, field in fields.items(): a dict iterates in insertion   *)
(* order, the order of the declarations                                    *)
Items(flds) == [k \in 1 .. Len(flds) |-> k]

(* row_data[field_name] = value *)
SetItem(row_data, name, value) ==
    IF \E k \in 1 .. Len(row_data) : row_data[k].name = name
    THEN [k \in 1 .. Len(row_data) |->
            IF row_data[k].name = name THEN [name |-> name, val |-> value]
            ELSE row_data[k]]
    ELSE Append(row_data, [name |-> name, val |-> value])

(* TableFields with one set of instances serving every table *)
TableFieldsShared(tbls, t) == tbls[1].fields

(* the field instances table t is built with: its own *)
TableFields(tbls, t) == tbls[t].fields

NoError == [table |-> "", field |-> "", row |-> 0]

(* entries of the record of a generate(): a field.generate call with the   *)
(* row_data it was handed, the value it returned and the random module as  *)
(* the call left it, or the append of a finished row                       *)
CallEvent(table_name, i, f, row_data, g) ==
    [ev |-> IF g.raised THEN "raise" ELSE "call", table |-> table_name,
     row |-> i, field |-> f.name, row_data |-> row_data, value |-> g.value,
     after |-> g.rng]
AppendEvent(table_name, i, row_data) ==
    [ev |-> "append", table |-> table_name, row |-> i, field |-> "",
     row_data |-> row_data, value |-> NoneVal]

(* NewBuild with the field instances created anew for the call *)
NewBuildFresh(flds, stored, r, n, log) ==
    [rng |-> r, ent |-> n,
     flds |-> [k \in 1 .. Len(flds) |->
                  [flds[k] EXCEPT !.current_value = flds[k].start - flds[k].increment]],
     log |-> log, raised |-> FALSE, error |-> NoError, row |-> <<>>,
     rows |-> <<>>, appended |-> 0]

(* NewBuild going on with the stored list instead of a new one *)
NewBuildKeep(flds, stored, r, n, log) ==
    [rng |-> r, ent |-> n, flds |-> flds, log |-> log, raised |-> FALSE,
     error |-> NoError, row |-> <<>>, rows |-> stored, appended |-> 0]

(* NewBuild with the random module put back to the start of its sequence   *)
NewBuildReseeded(flds, stored, r, n, log) ==
    [rng |-> [r EXCEPT !.pos = 0], ent |-> n, flds |-> flds, log |-> log,
     raised |-> FALSE, error |-> NoError, row |-> <<>>, rows |-> <<>>, appended |-> 0]

(* The state a table build starts from: the field instances as earlier     *)
(* calls left them, the random module as it stands, and a new empty list   *)
(* (self.data = [] / table_data = []) whatever the stored list held.       *)
NewBuild(flds, stored, r, n, log) ==
    [rng |-> r, ent |-> n, flds |-> flds, log |-> log, raised |-> FALSE,
     error |-> NoError, row |-> <<>>, rows |-> <<>>, appended |-> 0]

(* one row: for each field in Items order, value = field.generate(row_data) *)
(* then row_data[field_name] = value; an exception ends the build.         *)
(* AfterCall is the rest of the loop body once field j returned g.         *)
RECURSIVE AssembleRow(_, _, _, _, _, _)
(* AfterCall noting the exception and going on with the next field *)
AfterCallGoesOn(st, order, k, table_name, i, es, j, f, g) ==
    AssembleRow([st EXCEPT !.rng = g.rng, !.ent = g.ent, !.flds[j] = g.field,
                           !.log = Append(@, CallEvent(table_name, i, f, st.row, g)),
                           !.raised = @ \/ g.raised,
                           !.error = IF g.raised
                                     THEN [table |-> table_name, field |-> f.name, row |-> i]
                                     ELSE @,
                           !.row = IF g.raised THEN @ ELSE SetItem(@, f.name, g.value)],
                order, k + 1, table_name, i, es)

AfterCall(st, order, k, table_name, i, es, j, f, g) ==
    IF g.raised
    THEN [st EXCEPT !.rng = g.rng, !.ent = g.ent, !.flds[j] = g.field,
                    !.log = Append(@, CallEvent(table_name, i, f, st.row, g)),
                    !.raised = TRUE,
                    !.error = [table |-> table_name, field |-> f.name, row |-> i]]
    ELSE AssembleRow([st EXCEPT !.rng = g.rng, !.ent = g.ent, !.flds[j] = g.field,
                                !.log = Append(@, CallEvent(table_name, i, f, st.row, g)),
                                !.row = SetItem(@, f.name, g.value)],
                     order, k + 1, table_name, i, es)
AssembleRow(st, order, k, table_name, i, es) ==
    IF k > Len(order) THEN st
    ELSE AfterCall(st, order, k, table_name, i, es, order[k], st.flds[order[k]],
                   FieldGenerate(st.flds[order[k]], st.row, st.rng, st.ent, es))

(* StartRow with row_data created once, outside the loop *)
StartRowKept(st) == st

(* row_data = {} at the top of the loop body *)
StartRow(st) == [st EXCEPT !.row = <<>>]

(* AfterRow putting the row in front of the list: insert(0, row_data) *)
AfterRowInFront(a, table_name, i) ==
    IF a.raised THEN a
    ELSE [a EXCEPT !.rows = <<a.row>> \o @, !.appended = @ + 1,
                   !.log = Append(@, AppendEvent(table_name, i, a.row))]

(* list.append(row_data) once row i is assembled *)
AfterRow(a, table_name, i) ==
    IF a.raised THEN a
    ELSE [a EXCEPT !.rows = Append(@, a.row), !.appended = @ + 1,
                   !.log = Append(@, AppendEvent(table_name, i, a.row))]

(* rows lo .. hi in ascending order, each started with row_data = {}; the  *)
(* range is halved only to keep the evaluation shallow                     *)
RECURSIVE BuildRange(_, _, _, _, _, _)
BuildRange(st, order, table_name, lo, hi, es) ==
    IF st.raised \/ lo > hi THEN st
    ELSE IF lo = hi
    THEN AfterRow(AssembleRow(StartRow(st), order, 1, table_name, lo, es),
                  table_name, lo)
    ELSE BuildRange(BuildRange(st, order, table_name, lo, (lo + hi) \div 2, es),
                    order, table_name, ((lo + hi) \div 2) + 1, hi, es)

(* for i in range(count): row i + 1 of the list *)
BuildRows(st, order, table_name, count, es) ==
    BuildRange(st, order, table_name, 1, count, es)

(* multi-table mode: for table_name, table in self.tables.items(): build   *)
(* the table's list, then self.table_data[table_name] = table_data.        *)
(* AfterTable is the rest of the loop body once the list b is built.       *)
RECURSIVE BuildTables(_, _, _, _)
(* AfterTable emptying self.table_data when a table's build raised *)
AfterTableClearing(mt, t, cfg, es, b) ==
    IF b.raised
    THEN [mt EXCEPT !.rng = b.rng, !.ent = b.ent, !.log = b.log,
                    !.tables[t].fields = b.flds,
                    !.rowsEver[t] = @ + b.appended,
                    !.table_data = [u \in 1 .. Len(@) |-> <<>>],
                    !.raised = TRUE, !.error = b.error]
    ELSE BuildTables([mt EXCEPT !.rng = b.rng, !.ent = b.ent, !.log = b.log,
                                !.tables[t].fields = b.flds,
                                !.rowsEver[t] = @ + b.appended,
                                !.table_data[t] = b.rows,
                                !.rowBase[t]    = mt.rowsEver[t]],
                     t + 1, cfg, es)

AfterTable(mt, t, cfg, es, b) ==
    IF b.raised
    THEN [mt EXCEPT !.rng = b.rng, !.ent = b.ent, !.log = b.log,
                    !.tables[t].fields = b.flds,
                    !.rowsEver[t] = @ + b.appended,
                    !.raised = TRUE, !.error = b.error]
    ELSE BuildTables([mt EXCEPT !.rng = b.rng, !.ent = b.ent, !.log = b.log,
                                !.tables[t].fields = b.flds,
                                !.rowsEver[t] = @ + b.appended,
                                !.table_data[t] = b.rows,
                                !.rowBase[t]    = mt.rowsEver[t]],
                     t + 1, cfg, es)
BuildTables(mt, t, cfg, es) ==
    IF t > Len(mt.tables) THEN mt
    ELSE AfterTable(mt, t, cfg, es,
                    BuildRows(NewBuild(TableFields(mt.tables, t), mt.table_data[t],
                                       mt.rng, mt.ent, mt.log),
                              Items(TableFields(mt.tables, t)), mt.tables[t].name,
                              TableRows(cfg, mt.tables[t]), es))

----------------------------------------------------------------------------
(* The configurations the engines are constructed from *)

Schema(seed, rows, flds, tbls) ==
    [config |-> [seed |-> seed, rows |-> rows], fields |-> flds, tables |-> tbls,
     validations |-> <<>>]

Table(name, rows, flds) ==
    [name |-> name, config |-> [rows |-> rows], fields |-> flds]

Sequential(start, increment) ==
    [NoConfig EXCEPT !.start = <<start>>, !.increment = <<increment>>,
                     !.distribution = <<"sequential">>]
Ranged(distribution, min, max) ==
    [NoConfig EXCEPT !.distribution = <<distribution>>, !.min = <<min>>,
                     !.max = <<max>>]
Normal(min, max, mean, std_dev) ==
    [Ranged("normal", min, max) EXCEPT !.mean = <<mean>>, !.std_dev = <<std_dev>>]

IdAndValue ==
    << Decl("id", "integer", Sequential(1, 1)),
       Decl("v", "integer", Ranged("uniform", 0, 9)) >>

Schemas ==
    << \* 1: a sequential id and a uniform integer
       Schema(<<1>>, <<3>>,
              << Decl("id", "integer", Sequential(100, 10)),
                 Decl("age", "integer", Ranged("uniform", 18, 30)) >>, <<>>),
       \* 2: no row count anywhere
       Schema(<<1>>, <<>>, << Decl("id", "integer", Sequential(1, 2)) >>, <<>>),
       \* 3: start and increment without a distribution key
       Schema(<<2>>, <<2>>,
              << Decl("id", "integer",
                      [NoConfig EXCEPT !.start = <<1>>, !.increment = <<1>>]) >>,
              <<>>),
       \* 4: a uuid field
       Schema(<<1>>, <<2>>,
              << Decl("id", "integer", Sequential(1, 1)),
                 Decl("u", "uuid", NoConfig) >>, <<>>),
       \* 5: a string of generator uuid, a plain string, dates
       Schema(<<1>>, <<1>>,
              << Decl("s", "string", [NoConfig EXCEPT !.generator = <<"uuid">>]),
                 Decl("t", "string", [NoConfig EXCEPT !.min_length = <<1>>,
                                                      !.max_length = <<2>>]),
                 Decl("d", "date", [NoConfig EXCEPT !.start_date = <<3>>,
                                                    !.end_date = <<8>>]) >>, <<>>),
       \* 6: a date whose end_date defaults to the day of construction
       Schema(<<2>>, <<2>>,
              << Decl("d", "date", NoConfig),
                 Decl("n", "uuid", [NoConfig EXCEPT !.version = <<5>>]) >>, <<>>),
       \* 7: normal and uniform numerics
       Schema(<<2>>, <<2>>,
              << Decl("n", "integer", Normal(45, 55, 50, 10)),
                 Decl("x", "float", Normal(45 * Scale, 55 * Scale, 50 * Scale, 10 * Scale)),
                 Decl("m", "money", Normal(45 * Scale, 55 * Scale, 50 * Scale, 10 * Scale)),
                 Decl("y", "float", [Ranged("uniform", 0, 3 * Scale)
                                        EXCEPT !.precision = <<0>>]),
                 Decl("p", "money", Ranged("uniform", 1 * Scale, 2 * Scale)) >>, <<>>),
       \* 8: two tables with identical declarations, one with its own rows
       Schema(<<1>>, <<3>>, <<>>,
              << Table("A", <<2>>, IdAndValue), Table("B", <<>>, IdAndValue) >>),
       \* 9: two tables, no seed, no run-level rows
       Schema(<<>>, <<>>, <<>>,
              << Table("A", <<1>>, << Decl("id", "integer", Sequential(5, 5)) >>),
                 Table("B", <<>>,  << Decl("id", "integer", Sequential(5, 5)) >>) >>),
       \* 10: dependencies, one of them on a field declared later
       Schema(<<1>>, <<2>>,
              << Decl("a", "integer", [Ranged("uniform", 0, 9)
                                          EXCEPT !.dependencies = << <<"b">> >>]),
                 Decl("b", "integer", Sequential(1, 1)),
                 Decl("c", "integer", [Ranged("normal", 0, 9)
                                          EXCEPT !.dependencies = << <<"a">> >>]) >>,
              <<>>),
       \* 11: a field whose generator raises (randint on an empty range)
       Schema(<<1>>, <<2>>,
              << Decl("id", "integer", Sequential(1, 1)),
                 Decl("bad", "integer", Ranged("uniform", 5, 1)),
                 Decl("z", "integer", Ranged("uniform", 0, 1)) >>, <<>>),
       \* 12: the second table has the raising field
       Schema(<<2>>, <<1>>, <<>>,
              << Table("A", <<>>, IdAndValue),
                 Table("B", <<>>, << Decl("bad", "integer", Ranged("uniform", 5, 1)) >>),
                 Table("C", <<>>, IdAndValue) >>),
       \* 13: a type tag the registry does not know
       Schema(<<1>>, <<1>>,
              << Decl("id", "integer", Sequential(1, 1)),
                 Decl("r", "regex", NoConfig) >>, <<>>),
       \* 14: an unknown type tag in the second of two tables
       Schema(<<1>>, <<1>>, <<>>,
              << Table("A", <<>>, IdAndValue),
                 Table("B", <<>>, << Decl("id", "integer", Sequential(1, 1)),
                                     Decl("r", "regex", NoConfig),
                                     Decl("q", "jsonpath", NoConfig) >>) >>),
       \* 15: neither fields nor tables
       Schema(<<1>>, <<1>>, <<>>, <<>>),
       \* 16: fields and tables together
       Schema(<<1>>, <<1>>, << Decl("a", "integer", Sequential(1, 1)) >>,
              << Table("T", <<>>, << Decl("b", "integer", Sequential(1, 1)) >>) >>),
       \* 17: an email field, and one with a domain of its own
       Schema(<<1>>, <<1>>,
              << Decl("id", "integer", Sequential(1, 1)),
                 Decl("mail", "email", NoConfig),
                 Decl("work", "email", [NoConfig EXCEPT !.domain = <<"corp.test">>]) >>,
              <<>>),
       \* 18: an email field in a table, before a type tag the registry does
       \* not know
       Schema(<<2>>, <<1>>, <<>>,
              << Table("A", <<>>, << Decl("mail", "email", NoConfig),
                                     Decl("r", "regex", NoConfig) >>) >>)
    >>

(* The second configuration of a scenario: the first one again, or the     *)
(* first one with other dependencies lists, another seed, or no seed.      *)
Scenarios ==
    {<<s, "same">> : s \in 1 .. Len(Schemas)}
        \cup {<<s, "dependencies">> : s \in {1, 4, 8, 10}}
        \cup {<<s, "seed">> : s \in {1, 4, 8, 9}}
        \cup {<<s, "unseeded">> : s \in {1, 7, 8}}

OtherDependencies(flds) ==
    [k \in 1 .. Len(flds) |->
        [flds[k] EXCEPT !.config.dependencies =
            IF @ = <<>> THEN << <<flds[Len(flds)].name>> >> ELSE <<>>]]

Variant(schema, how) ==
    CASE how = "same" -> schema
      [] how = "dependencies" ->
            [schema EXCEPT
                !.fields = OtherDependencies(@),
                !.tables = [t \in 1 .. Len(@) |->
                               [@[t] EXCEPT !.fields = OtherDependencies(@)]]]
      [] how = "seed" ->
            [schema EXCEPT !.config.seed = IF @ = <<>> THEN <<1>> ELSE <<@[1] + 1>>]
      [] how = "unseeded" -> [schema EXCEPT !.config.seed = <<>>]

(* the states the random module can be in when the process starts: it is  *)
(* seeded from the operating system at import                             *)
BootSeeds == {0, 3}
(* the days a construction can fall on *)
Days == {10, 11}

NoHeld == [has |-> FALSE, first |-> <<>>, now |-> <<>>]

NoValidation == [count |-> 0, results |-> <<>>, previous |-> <<>>]

NoOutcome == [status |-> "none", error |-> NoError]

(* no engine constructed yet, from the configurations of scenario sc *)
EnginesInit(sc) ==
    /\ callerCfg = [e \in Engines |->
                       IF e = 1 THEN Schemas[sc[1]]
                       ELSE Variant(Schemas[sc[1]], sc[2])]
    /\ self_config = callerCfg
    /\ constructed = [e \in Engines |-> "no"]
    /\ is_multi_table = [e \in Engines |-> FALSE]
    /\ fields = [e \in Engines |-> <<>>]
    /\ data = [e \in Engines |-> <<>>]
    /\ tables = [e \in Engines |-> <<>>]
    /\ table_data = [e \in Engines |-> <<>>]
    /\ outcome = [e \in Engines |-> NoOutcome]
    /\ calls = [e \in Engines |-> <<>>]
    /\ rowBase = [e \in Engines |-> <<>>]
    /\ rowsEver = [e \in Engines |-> <<>>]
    /\ gens = [e \in Engines |-> 0]
    /\ lastRows = [e \in Engines |-> <<>>]
    /\ isRun = [e \in Engines |-> FALSE]
    /\ lastEntropy = [e \in Engines |-> <<>>]
    /\ lastOp = [op |-> "start", e |-> 0]
    /\ validate_calls = [e \in Engines |-> NoValidation]
    /\ held = [e \in Engines |-> NoHeld]

(* no SchemaParser constructed *)
NoParser ==
    [max_retries |-> 0, calls |-> 0, status |-> "none", attempts |-> 0, log |-> <<>>,
     error |-> ""]

NoUnit ==
    [field |-> Field("", "", NoConfig), count |-> 0, value |-> NoneVal,
     raised |-> FALSE, valid |-> <<>>]

Init ==
    /\ \E seed \in BootSeeds : rng = Reseed(seed)
    /\ \E sc \in Scenarios : EnginesInit(sc)
    /\ unit = NoUnit
    /\ parser = NoParser

----------------------------------------------------------------------------
(* DataGenerator.__init__ *)

(* _init_fields: one instance per declaration, in declaration order *)
InitFieldsRaises(decls) == \E k \in 1 .. Len(decls) : CreateFieldRaises(decls[k])
InitFields(decls, now) == [k \in 1 .. Len(decls) |-> create_field(decls[k], now)]

(* _init_tables: every table gets instances of its own *)
InitTablesRaises(tbls) == \E t \in 1 .. Len(tbls) : InitFieldsRaises(tbls[t].fields)
InitTables(tbls, now) ==
    [t \in 1 .. Len(tbls) |->
        [name |-> tbls[t].name, config |-> tbls[t].config,
         fields |-> InitFields(tbls[t].fields, now)]]

(* what the ValueError of a failed construction names: the first field     *)
(* create_field raised for and, in multi-table mode, its table             *)
FirstRaising(decls) == CHOOSE k \in 1 .. Len(decls) :
    /\ CreateFieldRaises(decls[k])
    /\ \A m \in 1 .. k - 1 : ~CreateFieldRaises(decls[m])
InitFieldsError(decls) ==
    [table |-> "", field |-> decls[FirstRaising(decls)].name, row |-> 0]
InitTablesError(tbls) ==
    LET t == CHOOSE u \in 1 .. Len(tbls) :
                 /\ InitFieldsRaises(tbls[u].fields)
                 /\ \A m \in 1 .. u - 1 : ~InitFieldsRaises(tbls[m].fields)
    IN  [InitFieldsError(tbls[t].fields) EXCEPT !.table = tbls[t].name]

(* What the construction leaves in the configuration the caller handed    *)
(* over: self.config is that object and create_field passes the config     *)
(* mapping of a declaration on to the field class, so the item assignment  *)
(* of EmailField shows in it, for every declaration created before the     *)
(* first one create_field raises for.                                      *)
DeclAfterCreate(decl) ==
    IF decl.type = "email" THEN [decl EXCEPT !.config = EmailConfig(@)] ELSE decl
FieldsConfigAfter(decls) ==
    [k \in 1 .. Len(decls) |->
        IF \A m \in 1 .. k : ~CreateFieldRaises(decls[m])
        THEN DeclAfterCreate(decls[k]) ELSE decls[k]]
ConfigAfterInit(cfg) ==
    IF Len(cfg.tables) > 0
    THEN [cfg EXCEPT !.tables =
            [t \in 1 .. Len(@) |->
                IF \A u \in 1 .. t - 1 : ~InitFieldsRaises(cfg.tables[u].fields)
                THEN [@[t] EXCEPT !.fields = FieldsConfigAfter(@)]
                ELSE @[t]]]
    ELSE [cfg EXCEPT !.fields = FieldsConfigAfter(@)]

(* SeedRandom with a construction that seeds even without a seed *)
SeedRandomAlways(cfg, r) == Reseed(Get(cfg.config.seed, 0))

(* random.seed(seed) when the configuration has a seed *)
SeedRandom(cfg, r) ==
    IF cfg.config.seed # <<>> THEN Reseed(cfg.config.seed[1]) ELSE r

(* the engines are numbered in the order of their construction *)
Construct(e) ==
    /\ constructed[e] = "no"
    /\ \A o \in Engines : o < e => constructed[o] # "no"
    /\ \E now \in Days :
        LET cfg   == self_config[e]
            multi == Len(cfg.tables) > 0
            fails == IF multi THEN InitTablesRaises(cfg.tables)
                     ELSE InitFieldsRaises(cfg.fields)
        IN  /\ rng' = SeedRandom(cfg, rng)
            /\ constructed' = [constructed EXCEPT ![e] = IF fails THEN "raised" ELSE "ok"]
            /\ self_config' = [self_config EXCEPT ![e] = ConfigAfterInit(cfg)]
            /\ outcome' = [outcome EXCEPT ![e] =
                    IF ~fails THEN @
                    ELSE [status |-> "config_error",
                          error |-> IF multi THEN InitTablesError(cfg.tables)
                                    ELSE InitFieldsError(cfg.fields)]]
            /\ IF fails
               THEN UNCHANGED <<is_multi_table, fields, data, tables, table_data,
                                rowBase, rowsEver>>
               ELSE /\ is_multi_table' = [is_multi_table EXCEPT ![e] = multi]
                    /\ IF multi
                       THEN /\ tables' = [tables EXCEPT ![e] = InitTables(cfg.tables, now)]
                            /\ table_data' = [table_data EXCEPT
                                                ![e] = [t \in 1 .. Len(cfg.tables) |-> <<>>]]
                            /\ rowBase' = [rowBase EXCEPT
                                                ![e] = [t \in 1 .. Len(cfg.tables) |-> 0]]
                            /\ rowsEver' = [rowsEver EXCEPT
                                                ![e] = [t \in 1 .. Len(cfg.tables) |-> 0]]
                            /\ UNCHANGED <<fields, data>>
                       ELSE /\ fields' = [fields EXCEPT ![e] = InitFields(cfg.fields, now)]
                            /\ data' = [data EXCEPT ![e] = <<>>]
                            /\ rowBase' = [rowBase EXCEPT ![e] = <<0>>]
                            /\ rowsEver' = [rowsEver EXCEPT ![e] = <<0>>]
                            /\ UNCHANGED <<tables, table_data>>
    /\ lastOp' = [op |-> "construct", e |-> e]
    /\ UNCHANGED <<callerCfg, calls, gens, lastRows, isRun,
                   lastEntropy, validate_calls, held, unit, parser>>

----------------------------------------------------------------------------
(* DataGenerator.generate(rows) *)

(* the operating-system outcomes a generate() of e can meet; they matter  *)
(* only when one of its fields asks for them                               *)
DrawsEntropy(f) ==
    \/ f.type = "uuid" /\ f.version \notin {3, 5}
    \/ f.type = "string" /\ f.generator = "uuid"
EntropyFor(e) ==
    IF \/ \E k \in 1 .. Len(fields[e]) : DrawsEntropy(fields[e][k])
       \/ \E t \in 1 .. Len(tables[e]) :
             \E k \in 1 .. Len(tables[e][t].fields) : DrawsEntropy(tables[e][t].fields[k])
    THEN EntropySeqs
    ELSE {<<>>}

RowsArgs == {<<>>} \cup {<<n>> : n \in 0 .. MaxRowsArg}

Outcome(raised, error) ==
    [status |-> IF raised THEN "raised" ELSE "returned", error |-> error]

GenerateSingle(e, rows, es) ==
    \E b \in {BuildRows(NewBuild(fields[e], data[e], rng, 0, <<>>), Items(fields[e]),
                       "", RowsToGenerate(self_config[e], rows), es)} :
        /\ rng' = b.rng
        /\ fields' = [fields EXCEPT ![e] = b.flds]
        /\ data' = [data EXCEPT ![e] = b.rows]
        /\ outcome' = [outcome EXCEPT ![e] = Outcome(b.raised, b.error)]
        /\ calls' = [calls EXCEPT ![e] = b.log]
        /\ rowBase' = [rowBase EXCEPT ![e] = <<rowsEver[e][1]>>]
        /\ rowsEver' = [rowsEver EXCEPT ![e] = <<rowsEver[e][1] + b.appended>>]
        /\ lastEntropy' = [lastEntropy EXCEPT ![e] = Consumed(es, b.ent)]
        /\ UNCHANGED <<tables, table_data>>

GenerateMulti(e, rows, es) ==
    \E mt \in {BuildTables([rng |-> rng, ent |-> 0, tables |-> tables[e],
                             table_data |-> table_data[e], log |-> <<>>,
                             raised |-> FALSE, error |-> NoError,
                             rowBase |-> rowBase[e], rowsEver |-> rowsEver[e]],
                            1, self_config[e], es)} :
        /\ rng' = mt.rng
        /\ tables' = [tables EXCEPT ![e] = mt.tables]
        /\ table_data' = [table_data EXCEPT ![e] = mt.table_data]
        /\ outcome' = [outcome EXCEPT ![e] = Outcome(mt.raised, mt.error)]
        /\ calls' = [calls EXCEPT ![e] = mt.log]
        /\ rowBase' = [rowBase EXCEPT ![e] = mt.rowBase]
        /\ rowsEver' = [rowsEver EXCEPT ![e] = mt.rowsEver]
        /\ lastEntropy' = [lastEntropy EXCEPT ![e] = Consumed(es, mt.ent)]
        /\ UNCHANGED <<fields, data>>

(* The object a generate() returned, as the caller who kept it sees it     *)
(* after a later generate().  Single-table mode: self.data = [] binds a    *)
(* new list at every call and the old list is written no more.             *)
(* Multi-table mode: return self.table_data hands out the dict of the      *)
(* engine itself, and self.table_data[table_name] = table_data of a later  *)
(* call is an item assignment on that same dict.  A call that raises       *)
(* returns nothing.                                                        *)
HeldAfter(h, multi, raised, stored) ==
    IF ~h.has
    THEN IF raised THEN h ELSE [has |-> TRUE, first |-> stored, now |-> stored]
    ELSE IF multi THEN [h EXCEPT !.now = stored]
    ELSE h

RECURSIVE SumOver(_, _)
SumOver(f, S) ==
    IF S = {} THEN 0
    ELSE LET x == CHOOSE y \in S : TRUE IN f[x] + SumOver(f, S \ {x})
TotalGenerates == SumOver(gens, Engines)

Generate(e) ==
    /\ constructed[e] = "ok"
    /\ TotalGenerates < MaxGenerates
    /\ \E rows \in RowsArgs, es \in EntropyFor(e) :
        /\ IF is_multi_table[e] THEN GenerateMulti(e, rows, es)
                                ELSE GenerateSingle(e, rows, es)
        /\ lastRows' = [lastRows EXCEPT ![e] = rows]
    /\ held' = [held EXCEPT ![e] =
                  HeldAfter(@, is_multi_table[e], outcome'[e].status = "raised",
                            IF is_multi_table[e] THEN table_data'[e] ELSE data'[e])]
    /\ gens' = [gens EXCEPT ![e] = @ + 1]
    /\ isRun' = [isRun EXCEPT ![e] = (lastOp = [op |-> "construct", e |-> e])]
    /\ lastOp' = [op |-> "generate", e |-> e]
    /\ UNCHANGED <<callerCfg, self_config, constructed, is_multi_table, validate_calls,
                   unit, parser>>

----------------------------------------------------------------------------
Next == \E e \in Engines : Construct(e) \/ Generate(e)

Spec == Init /\ [][Next]_vars

----------------------------------------------------------------------------
(* A field instance used on its own: create_field, then generate called    *)
(* any number of times with any row, the random module being reseeded at   *)
(* will in between (tests/test_base_fields.py uses fields this way).       *)

MaxUnitCalls == 3   \* generate calls on the instance

OptOf(S) == {<<>>} \cup {<<x>> : x \in S}

UnitIntegers ==
    {Decl("f", "integer",
          [NoConfig EXCEPT !.distribution = d, !.start = sp[1], !.increment = sp[2],
                           !.min = mm[1], !.max = mm[2]]) :
        d  \in OptOf({"sequential", "uniform", "normal"}),
        sp \in {<< <<>>, <<>> >>, << <<100>>, <<10>> >>, << <<1>>, <<2>> >>,
                << <<3>>, <<-1>> >>, << <<7>>, <<>> >>},
        mm \in {<< <<>>, <<>> >>, << <<18>>, <<30>> >>, << <<45>>, <<55>> >>,
                << <<5>>, <<1>> >>}}

UnitReals ==
    {Decl("f", type,
          [NoConfig EXCEPT !.distribution = d, !.min = mm[1], !.max = mm[2],
                           !.precision = p]) :
        type \in {"float", "money"},
        d  \in OptOf({"uniform", "normal"}),
        mm \in {<< <<>>, <<>> >>, << <<45 * Scale>>, <<55 * Scale>> >>,
                << <<5>>, <<25>> >>},
        p  \in OptOf({0})}

UnitDates ==
    {Decl("f", type,
          [NoConfig EXCEPT !.start_date = se[1], !.end_date = se[2], !.format = fmt]) :
        type \in {"date", "datetime"},
        se   \in {<< <<>>, <<>> >>, << <<3>>, <<8>> >>, << <<8>>, <<3>> >>,
                  << <<12>>, <<>> >>, << <<5>>, <<5>> >>, << <<9>>, <<11>> >>},
        fmt  \in OptOf({"%d/%m/%Y"})}

UnitIdCards ==
    {Decl("f", "id_card",
          [NoConfig EXCEPT !.gender = g, !.birth_date_range = br]) :
        g  \in OptOf({"M", "F"}),
        br \in OptOf({<<0, 30>>, <<59, 60>>, <<-3000, -2000>>})}

UnitDecls == UnitIntegers \cup UnitReals \cup UnitDates \cup UnitIdCards

UnitRows ==
    { <<>>,
      << [name |-> "other_field", val |-> IntVal(7)] >>,
      << [name |-> "f", val |-> IntVal(-1)], [name |-> "g", val |-> StrVal(1, 2)] >> }

FieldInit ==
    /\ \E seed \in BootSeeds : rng = Reseed(seed)
    /\ EnginesInit(<<1, "same">>)
    /\ \E decl \in UnitDecls, now \in Days :
          unit = [NoUnit EXCEPT !.field = create_field(decl, now)]
    /\ parser = NoParser

FieldCall ==
    /\ unit.count < MaxUnitCalls
    /\ \E row_data \in UnitRows :
        \E g \in {FieldGenerate(unit.field, row_data, rng, 0, <<0>>)} :
            /\ unit' = [field |-> g.field, count |-> unit.count + 1,
                        value |-> g.value, raised |-> g.raised, valid |-> <<>>]
            /\ rng' = g.rng
    /\ UNCHANGED <<callerCfg, self_config, constructed, is_multi_table, fields,
                   data, tables, table_data, outcome, calls, rowBase, rowsEver,
                   gens, lastRows, isRun, lastEntropy, lastOp, validate_calls, held,
                   parser>>

FieldReseed ==
    /\ \E seed \in {1, 2} : rng' = Reseed(seed)
    /\ rng' # rng
    /\ UNCHANGED <<callerCfg, self_config, constructed, is_multi_table, fields,
                   data, tables, table_data, outcome, calls, rowBase, rowsEver,
                   gens, lastRows, isRun, lastEntropy, lastOp, validate_calls, held,
                   unit, parser>>

(* field.validate(value) on the value the last generate returned *)
FieldValidate ==
    /\ unit.field.type = "id_card"
    /\ unit.count > 0 /\ ~unit.raised /\ unit.valid = <<>>
    /\ unit' = [unit EXCEPT !.valid = <<IDCardValidate(unit.value)>>]
    /\ UNCHANGED <<rng, callerCfg, self_config, constructed, is_multi_table, fields,
                   data, tables, table_data, outcome, calls, rowBase, rowsEver,
                   gens, lastRows, isRun, lastEntropy, lastOp, validate_calls, held,
                   parser>>

FieldNext == FieldCall \/ FieldReseed \/ FieldValidate

FieldSpec == FieldInit /\ [][FieldNext]_vars

----------------------------------------------------------------------------
(* Validator: DataGenerator.validate.  A rule text is a sequence of        *)
(* one-character strings.                                                  *)

StartsWith(s, prefix) ==
    Len(s) >= Len(prefix) /\ SubSeq(s, 1, Len(prefix)) = prefix

(* needle in s *)
Contains(s, needle) ==
    \E i \in 1 .. Len(s) - Len(needle) + 1 : SubSeq(s, i, i + Len(needle) - 1) = needle

IsSpace(c) == c = " "

(* str.strip() *)
Strip(s) ==
    LET solid == {i \in 1 .. Len(s) : ~IsSpace(s[i])}
    IN  IF solid = {} THEN <<>>
        ELSE SubSeq(s, CHOOSE i \in solid : \A j \in solid : i <= j,
                       CHOOSE i \in solid : \A j \in solid : i >= j)

AllDigits(s) == \A i \in 1 .. Len(s) : IsDigit(s[i])

(* int(digits) *)
RECURSIVE IntOfDigits(_)
IntOfDigits(s) ==
    IF s = <<>> THEN 0
    ELSE IntOfDigits(SubSeq(s, 1, Len(s) - 1)) * 10 + DigitOf(s[Len(s)])

(* float(text): [ok, ticks].  Accepted here: an optional sign, then digits *)
(* with an optional point (5, 5., .5, 5.5); anything else raises           *)
(* ValueError.  The value is kept to the resolution of Scale.              *)
FloatOf(text) ==
    LET signed == Len(text) >= 1 /\ text[1] \in {"-", "+"}
        body   == IF signed THEN SubSeq(text, 2, Len(text)) ELSE text
        points == {i \in 1 .. Len(body) : body[i] = "."}
        whole  == IF points = {} THEN body
                  ELSE SubSeq(body, 1, (CHOOSE i \in points : TRUE) - 1)
        frac   == IF points = {} THEN <<>>
                  ELSE SubSeq(body, (CHOOSE i \in points : TRUE) + 1, Len(body))
        ok     == /\ Cardinality(points) <= 1
                  /\ AllDigits(whole) /\ AllDigits(frac)
                  /\ Len(whole) + Len(frac) >= 1
        ticks  == IntOfDigits(whole) * Scale
                    + (IF frac = <<>> THEN 0 ELSE (DigitOf(frac[1]) * Scale) \div 10)
    IN  IF ~ok THEN [ok |-> FALSE, ticks |-> 0]
        ELSE [ok |-> TRUE, ticks |-> IF signed /\ text[1] = "-" THEN -ticks ELSE ticks]

(* the end of the run of spaces or of digits that starts at position i *)
RECURSIVE RunEnd(_, _, _)
RunEnd(s, i, digits) ==
    IF i <= Len(s) /\ (IF digits THEN IsDigit(s[i]) ELSE IsSpace(s[i]))
    THEN RunEnd(s, i + 1, digits) ELSE i

(* re.search of the word length, spaces, OP, spaces, digits in the rule:  *)
(* [ok, n] with n = int(group(1))                                         *)
(* of the leftmost match                                                   *)
LengthWord == <<"l", "e", "n", "g", "t", "h">>
SearchLength(rule, op) ==
    LET MatchAt(i) ==
            /\ i + Len(LengthWord) - 1 <= Len(rule)
            /\ SubSeq(rule, i, i + Len(LengthWord) - 1) = LengthWord
            /\ LET a == RunEnd(rule, i + Len(LengthWord), FALSE)
               IN  /\ a + Len(op) - 1 <= Len(rule)
                   /\ SubSeq(rule, a, a + Len(op) - 1) = op
                   /\ LET b == RunEnd(rule, a + Len(op), FALSE)
                      IN  b <= Len(rule) /\ IsDigit(rule[b])
        DigitsAt(i) ==
            LET b == RunEnd(rule, RunEnd(rule, i + Len(LengthWord), FALSE) + Len(op),
                            FALSE)
            IN  SubSeq(rule, b, RunEnd(rule, b, TRUE) - 1)
        starts == {i \in 1 .. Len(rule) : MatchAt(i)}
    IN  IF starts = {} THEN [ok |-> FALSE, n |-> 0]
        ELSE [ok |-> TRUE,
              n |-> IntOfDigits(DigitsAt(CHOOSE i \in starts : \A j \in starts : i <= j))]

(* a string of digits, as StringField with generator 'numeric' returns,    *)
(* spelling the number n                                                   *)
NumStrVal(n) == [k |-> "numstr", v |-> n]

(* number of decimal digits of n >= 0 *)
RECURSIVE DecimalDigits(_)
DecimalDigits(n) == IF n < 10 THEN 1 ELSE 1 + DecimalDigits(n \div 10)

(* len(str(value)) *)
StrLen(value) ==
    CASE value.k = "int"    -> IF value.v < 0 THEN 1 + DecimalDigits(-value.v)
                               ELSE DecimalDigits(value.v)
      [] value.k = "float"  -> (IF value.v < 0 THEN 1 + DecimalDigits((-value.v) \div Scale)
                                ELSE DecimalDigits(value.v \div Scale)) + 2
      [] value.k = "str"    -> value.v \div StrBase
      [] value.k = "numstr" -> DecimalDigits(value.v)
      [] value.k = "date"   -> 10
      [] value.k = "uuid"   -> 36
      [] OTHER              -> 4

(* value OP number, number in ticks: [raised, result].  Comparing anything *)
(* but an int or a float with a float raises TypeError.                    *)
IsNumber(value) == value.k \in {"int", "float"}
TicksOf(value) == IF value.k = "int" THEN value.v * Scale ELSE value.v
Compare(value, op, number) ==
    IF ~IsNumber(value) THEN [raised |-> TRUE, result |-> FALSE]
    ELSE [raised |-> FALSE,
          result |-> CASE op = <<">", "=">> -> TicksOf(value) >= number
                       [] op = <<"<", "=">> -> TicksOf(value) <= number
                       [] op = <<">">>      -> TicksOf(value) > number
                       [] op = <<"<">>      -> TicksOf(value) < number]

(* the characters of a field or table name; the names of the model that   *)
(* are not listed here are one character long                              *)
Spelling(name) ==
    CASE name = "id"  -> <<"i", "d">>
      [] name = "age" -> <<"a", "g", "e">>
      [] name = "bad" -> <<"b", "a", "d">>
      [] name = ""    -> <<>>
      [] OTHER        -> <<name>>

(* field_full_name.split('.', 1) when '.' is in it: [scoped, table, field] *)
SplitField(field_full_name) ==
    LET dots == {i \in 1 .. Len(field_full_name) : field_full_name[i] = "."}
        first == CHOOSE i \in dots : \A j \in dots : i <= j
    IN  IF dots = {}
        THEN [scoped |-> FALSE, table |-> <<>>, field |-> field_full_name]
        ELSE [scoped |-> TRUE,
              table |-> SubSeq(field_full_name, 1, first - 1),
              field |-> SubSeq(field_full_name, first + 1, Len(field_full_name))]

(* field_name in row_data, and row_data[field_name] *)
InRow(row_data, field_name) ==
    \E k \in 1 .. Len(row_data) : Spelling(row_data[k].name) = field_name
RowItem(row_data, field_name) ==
    row_data[CHOOSE k \in 1 .. Len(row_data) :
                 Spelling(row_data[k].name) = field_name].val

(* try: number = float(rule[len(op):].strip()); is_valid = value OP number *)
(* except: is_valid = False                                                *)
NumericRule(rule, value, op) ==
    LET number == FloatOf(Strip(SubSeq(rule, Len(op) + 1, Len(rule))))
        c      == Compare(value, op, number.ticks)
    IN  number.ok /\ ~c.raised /\ c.result

(* the operator the first regular expression of the length branch looks for *)
LengthAtLeastOp == <<">", "=", ">">>

(* the if/elif chain that computes is_valid *)
IsValid(rule, value) ==
    IF StartsWith(rule, <<">", "=">>) THEN NumericRule(rule, value, <<">", "=">>)
    ELSE IF StartsWith(rule, <<"<", "=">>) THEN NumericRule(rule, value, <<"<", "=">>)
    ELSE IF StartsWith(rule, <<">">>) THEN NumericRule(rule, value, <<">">>)
    ELSE IF StartsWith(rule, <<"<">>) THEN NumericRule(rule, value, <<"<">>)
    ELSE IF Contains(rule, LengthWord) THEN
        LET least == SearchLength(rule, LengthAtLeastOp)
            most  == SearchLength(rule, <<"<", "=">>)
        IN  IF least.ok THEN StrLen(value) >= least.n
            ELSE IF most.ok THEN StrLen(value) <= most.n
            ELSE TRUE
    ELSE TRUE

(* an entry of the validations list of the configuration *)
Validation(field, rule, message) == [field |-> field, rule |-> rule, message |-> message]

(* the dict validate() appends; table is present in multi-table mode only *)
ResultEntry(table, i, field_name, value, validation) ==
    [table |-> table, row |-> i, field |-> field_name, value |-> value,
     rule |-> validation.rule, message |-> Get(validation.message, ""), valid |-> FALSE]

(* CheckOne without the comparison of validation_table and table_name *)
CheckOneAnyTable(results, table, i, row_data, validation) ==
    LET split == SplitField(validation.field)
        field_name == IF table = <<>> THEN validation.field ELSE split.field
    IN  IF ~InRow(row_data, field_name) THEN results
        ELSE IF IsValid(validation.rule, RowItem(row_data, field_name)) THEN results
        ELSE Append(results, ResultEntry(table, i, field_name,
                                         RowItem(row_data, field_name), validation))

(* the body of the innermost loop, for row i (counted from 1) of a table:  *)
(* table is <<>> in single-table mode and <<table_name>> in multi-table    *)
(* mode                                                                    *)
CheckOne(results, table, i, row_data, validation) ==
    LET split == SplitField(validation.field)
        skip  == table # <<>> /\ split.scoped /\ split.table # Spelling(table[1])
        field_name == IF table = <<>> THEN validation.field ELSE split.field
    IN  IF skip \/ ~InRow(row_data, field_name) THEN results
        ELSE IF IsValid(validation.rule, RowItem(row_data, field_name)) THEN results
        ELSE Append(results, ResultEntry(table, i, field_name,
                                         RowItem(row_data, field_name), validation))

(* CheckRows with the loops exchanged: for validation in validations: for  *)
(* i, row_data in enumerate(rows)                                          *)
RECURSIVE CheckRowsRuleFirst(_, _, _, _, _)
CheckRowsRuleFirst(results, table, rows, validations, p) ==
    IF p > Len(rows) * Len(validations) THEN results
    ELSE CheckRowsRuleFirst(CheckOne(results, table,
                                     ((p - 1) % Len(rows)) + 1,
                                     rows[((p - 1) % Len(rows)) + 1],
                                     validations[((p - 1) \div Len(rows)) + 1]),
                            table, rows, validations, p + 1)

(* for i, row_data in enumerate(rows): for validation in validations: the  *)
(* p-th (row, validation) pair onwards                                     *)
RECURSIVE CheckRows(_, _, _, _, _)
CheckRows(results, table, rows, validations, p) ==
    IF p > Len(rows) * Len(validations) THEN results
    ELSE CheckRows(CheckOne(results, table,
                            ((p - 1) \div Len(validations)) + 1,
                            rows[((p - 1) \div Len(validations)) + 1],
                            validations[((p - 1) % Len(validations)) + 1]),
                   table, rows, validations, p + 1)

(* for table_name, table_data in self.table_data.items(): table t onwards *)
RECURSIVE CheckTables(_, _, _, _, _)
CheckTables(results, tbls, stored, validations, t) ==
    IF t > Len(tbls) THEN results
    ELSE CheckTables(CheckRows(results, <<tbls[t].name>>, stored[t], validations, 1),
                     tbls, stored, validations, t + 1)

(* NewResults with the list kept on the engine between calls *)
NewResultsKept(previous) == previous

(* validation_results = [] *)
NewResults(previous) == <<>>

(* the list validate() returns for engine e *)
ValidateReturns(e) ==
    IF is_multi_table[e]
    THEN CheckTables(NewResults(validate_calls[e].results), tables[e], table_data[e],
                     self_config[e].validations, 1)
    ELSE CheckRows(NewResults(validate_calls[e].results), <<>>, data[e],
                   self_config[e].validations, 1)

MaxValidates == 2   \* validate() calls on an engine

Validate(e) ==
    /\ constructed[e] = "ok"
    /\ validate_calls[e].count < MaxValidates
    /\ validate_calls' = [validate_calls EXCEPT ![e] =
                         [count |-> @.count + 1, results |-> ValidateReturns(e),
                          previous |-> @.results]]
    /\ lastOp' = [op |-> "validate", e |-> e]
    /\ UNCHANGED <<rng, callerCfg, self_config, constructed, is_multi_table, fields,
                   data, tables, table_data, outcome, calls, rowBase, rowsEver,
                   gens, lastRows, isRun, lastEntropy, held, unit, parser>>

(* validate() on an engine whose stored dataset and validations list are  *)
(* drawn from the sets below                                               *)

MaxDataRows == 2    \* rows of a stored dataset

(* rule texts *)
Rules ==
    [ AtLeast18      |-> <<">", "=", " ", "1", "8">>,
      AtLeast18Tight |-> <<">", "=", "1", "8">>,
      AtMost18       |-> <<"<", "=", " ", "1", "8">>,
      Above18        |-> <<">", " ", "1", "8">>,
      Below18Half    |-> <<"<", " ", "1", "8", ".", "5">>,
      AtLeastWord    |-> <<">", "=", " ", "x">>,
      LengthAtLeast3 |-> <<"l", "e", "n", "g", "t", "h", " ", ">", "=", " ", "3">>,
      LengthAtMost3  |-> <<"l", "e", "n", "g", "t", "h", " ", "<", "=", " ", "3">>,
      LengthAtMost10 |-> <<"l", "e", "n", "g", "t", "h", "<", "=", "1", "0">>,
      LengthArrow3   |-> <<"l", "e", "n", "g", "t", "h", " ", ">", "=", ">", " ", "3">>,
      LengthEquals3  |-> <<"l", "e", "n", "g", "t", "h", " ", "=", "=", " ", "3">>,
      Regex          |-> <<"r", "e", "g", "e", "x", "(", "x", ")">>,
      Arrow5         |-> <<"=", ">", " ", "5">> ]

RuleTexts == {Rules[n] : n \in DOMAIN Rules}

(* the texts the field of a validation is written with: a field name, or a *)
(* table name, a point and a field name                                    *)
FieldTexts ==
    {<<"n">>, <<"x">>, <<"s">>, <<"t">>, <<"d">>, <<"z">>,
     <<"A", ".", "n">>, <<"B", ".", "n">>, <<"B", ".", "x">>, <<"C", ".", "n">>}

ValidationLists ==
    {<<>>}
        \cup {<<Validation(f, r, <<>>)>> : f \in FieldTexts, r \in RuleTexts}
        \cup { <<Validation(<<"n">>, Rules.AtLeast18, <<"adult">>),
                 Validation(<<"n">>, Rules.AtMost18, <<>>)>>,
               <<Validation(<<"s">>, Rules.LengthAtMost3, <<>>),
                 Validation(<<"n">>, Rules.Above18, <<"over">>),
                 Validation(<<"n">>, Rules.AtLeast18, <<>>)>>,
               <<Validation(<<"B", ".", "n">>, Rules.AtLeast18, <<>>),
                 Validation(<<"n">>, Rules.Below18Half, <<"low">>),
                 Validation(<<"A", ".", "n">>, Rules.Above18, <<>>)>>,
               <<Validation(<<"x">>, Rules.Above18, <<>>),
                 Validation(<<"z">>, Rules.AtLeast18, <<>>),
                 Validation(<<"t">>, Rules.AtLeast18, <<>>)>> }

(* declarations and rows of the single-table engine *)
MixedFields ==
    << Decl("n", "integer", Ranged("uniform", 0, 30)),
       Decl("x", "float", Ranged("uniform", -1 * Scale, 30 * Scale)),
       Decl("s", "string", [NoConfig EXCEPT !.min_length = <<2>>, !.max_length = <<5>>]),
       Decl("t", "string", [NoConfig EXCEPT !.generator = <<"numeric">>]),
       Decl("d", "date", [NoConfig EXCEPT !.start_date = <<3>>, !.end_date = <<8>>]) >>
MixedRow(n, x, s, t, d) ==
    << [name |-> "n", val |-> IntVal(n)], [name |-> "x", val |-> FloatVal(x)],
       [name |-> "s", val |-> s], [name |-> "t", val |-> NumStrVal(t)],
       [name |-> "d", val |-> DateVal(d)] >>
MixedRows ==
    { MixedRow(17, 185, StrVal(2, 5), 42, 3),
      MixedRow(18, 179, StrVal(5, 1), 7, 4),
      MixedRow(20, -5, StrVal(3, 0), 1234, 8) }

(* declarations and rows of the tables A and B of the multi-table engine *)
FieldsOfA == << MixedFields[1], MixedFields[3] >>
FieldsOfB == << MixedFields[1], MixedFields[2] >>
RowsOfA ==
    { << [name |-> "n", val |-> IntVal(17)], [name |-> "s", val |-> StrVal(2, 5)] >>,
      << [name |-> "n", val |-> IntVal(19)], [name |-> "s", val |-> StrVal(4, 1)] >> }
RowsOfB ==
    { << [name |-> "n", val |-> IntVal(18)], [name |-> "x", val |-> FloatVal(190)] >>,
      << [name |-> "n", val |-> IntVal(30)], [name |-> "x", val |-> FloatVal(12)] >> }

(* the lists of at most n elements of S *)
ListsOf(S, n) == UNION {[1 .. m -> S] : m \in 0 .. n}

(* an engine in single-table mode holding the rows, the other not built *)
SingleStored(validations, rows) ==
    /\ callerCfg = [e \in Engines |->
                       [Schema(<<1>>, <<MaxDataRows>>, MixedFields, <<>>)
                           EXCEPT !.validations = validations]]
    /\ is_multi_table = [e \in Engines |-> FALSE]
    /\ fields = [e \in Engines |-> IF e = 1 THEN InitFields(MixedFields, 10) ELSE <<>>]
    /\ data = [e \in Engines |-> IF e = 1 THEN rows ELSE <<>>]
    /\ tables = [e \in Engines |-> <<>>]
    /\ table_data = [e \in Engines |-> <<>>]
    /\ rowBase = [e \in Engines |-> IF e = 1 THEN <<0>> ELSE <<>>]
    /\ rowsEver = [e \in Engines |-> IF e = 1 THEN <<Len(rows)>> ELSE <<>>]

(* an engine in multi-table mode holding the rows of A and B *)
MultiStored(validations, rowsA, rowsB) ==
    /\ callerCfg = [e \in Engines |->
                       [Schema(<<1>>, <<MaxDataRows>>, <<>>,
                               << Table("A", <<>>, FieldsOfA),
                                  Table("B", <<>>, FieldsOfB) >>)
                           EXCEPT !.validations = validations]]
    /\ is_multi_table = [e \in Engines |-> e = 1]
    /\ fields = [e \in Engines |-> <<>>]
    /\ data = [e \in Engines |-> <<>>]
    /\ tables = [e \in Engines |->
                    IF e = 1 THEN InitTables(<< Table("A", <<>>, FieldsOfA),
                                                Table("B", <<>>, FieldsOfB) >>, 10)
                    ELSE <<>>]
    /\ table_data = [e \in Engines |-> IF e = 1 THEN <<rowsA, rowsB>> ELSE <<>>]
    /\ rowBase = [e \in Engines |-> IF e = 1 THEN <<0, 0>> ELSE <<>>]
    /\ rowsEver = [e \in Engines |-> IF e = 1 THEN <<Len(rowsA), Len(rowsB)>> ELSE <<>>]

ValidateInit ==
    /\ rng = Reseed(1)
    /\ \E validations \in ValidationLists :
          \/ \E rows \in ListsOf(MixedRows, MaxDataRows) : SingleStored(validations, rows)
          \/ \E rowsA \in ListsOf(RowsOfA, MaxDataRows), rowsB \in ListsOf(RowsOfB, MaxDataRows) :
                /\ Len(rowsA) + Len(rowsB) <= MaxDataRows
                /\ MultiStored(validations, rowsA, rowsB)
    /\ self_config = callerCfg
    /\ constructed = [e \in Engines |-> IF e = 1 THEN "ok" ELSE "no"]
    /\ outcome = [e \in Engines |-> IF e = 1 THEN Outcome(FALSE, NoError) ELSE NoOutcome]
    /\ calls = [e \in Engines |-> <<>>]
    /\ gens = [e \in Engines |-> IF e = 1 THEN 1 ELSE 0]
    /\ lastRows = [e \in Engines |-> <<>>]
    /\ isRun = [e \in Engines |-> e = 1]
    /\ lastEntropy = [e \in Engines |-> <<>>]
    /\ lastOp = [op |-> "generate", e |-> 1]
    /\ validate_calls = [e \in Engines |-> NoValidation]
    /\ held = [e \in Engines |-> NoHeld]
    /\ unit = NoUnit
    /\ parser = NoParser

ValidateNext == \E e \in Engines : Validate(e)

ValidateSpec == ValidateInit /\ [][ValidateNext]_vars

----------------------------------------------------------------------------
(* SchemaParser (schema_parser.py): the call of the AI API under the       *)
(* tenacity retry decorator.  What the API answers to an attempt is        *)
(* "ok" or the class of the openai error it raises.                        *)

(* the value of max_retries given to the constructor (cli --max-retries) *)
MaxRetriesArg == 4
RetryArgs == 1 .. MaxRetriesArg

(* _call_ai_api calls on one parser *)
MaxParses == 2

(* stop=stop_after_attempt(3) *)
StopAfterAttempt == 3

ApiAnswers ==
    {"ok", "RateLimitError", "APITimeoutError", "APIConnectionError", "BadRequestError",
     "AuthenticationError"}

(* the classes an exception is an instance of *)
ClassesOf(exc) ==
    CASE exc = "APITimeoutError" ->
            {"APITimeoutError", "APIConnectionError", "APIError", "Exception"}
      [] exc = "APIConnectionError" -> {"APIConnectionError", "APIError", "Exception"}
      [] exc \in {"RateLimitError", "BadRequestError", "AuthenticationError"} ->
            {exc, "APIStatusError", "APIError", "Exception"}
      [] OTHER -> {exc, "Exception"}

IsInstance(exc, classes) == ClassesOf(exc) \cap classes # {}

(* SchemaParser.__init__ with an API key: max_retries is stored *)
SchemaParser(max_retries) ==
    [NoParser EXCEPT !.max_retries = max_retries, !.status = "idle"]

(* the body of _call_ai_api on one answer: the exception it raises, "" when *)
(* it returns the YAML text; the except clauses in their order              *)
CallBody(answer) ==
    CASE answer = "ok" -> ""
      [] IsInstance(answer, {"RateLimitError"})     -> "RuntimeError"
      [] IsInstance(answer, {"APITimeoutError"})    -> answer
      [] IsInstance(answer, {"APIConnectionError"}) -> answer
      [] IsInstance(answer, {"APIError"})           -> "SchemaParseError"
      [] OTHER -> answer

(* retry=retry_if_exception_type((APITimeoutError, APIConnectionError,     *)
(* RuntimeError))                                                          *)
RetryOn(exc) == IsInstance(exc, {"APITimeoutError", "APIConnectionError", "RuntimeError"})

(* one attempt under the decorator: the body runs; a retried exception     *)
(* before the stop leaves the call waiting for the next attempt, at the    *)
(* stop it is re-raised (reraise=True); any other exception propagates     *)
AfterAttempt(p, answer) ==
    LET exc == CallBody(answer)
        n   == p.attempts + 1
    IN  [p EXCEPT !.attempts = n,
                  !.log      = Append(@, answer),
                  !.error    = exc,
                  !.status   = IF exc = "" THEN "returned"
                               ELSE IF RetryOn(exc) /\ n < StopAfterAttempt THEN "waiting"
                               ELSE "raised"]

ParseInit ==
    /\ rng = Reseed(1)
    /\ EnginesInit(<<1, "same">>)
    /\ unit = NoUnit
    /\ \E max_retries \in RetryArgs : parser = SchemaParser(max_retries)

(* parse_markdown_to_yaml calls _call_ai_api: the first attempt *)
CallAiApi ==
    /\ parser.status \in {"idle", "returned", "raised"}
    /\ parser.calls < MaxParses
    /\ \E answer \in ApiAnswers :
          parser' = AfterAttempt([parser EXCEPT !.calls = @ + 1, !.attempts = 0,
                                               !.log = <<>>, !.error = ""], answer)
    /\ UNCHANGED <<rng, callerCfg, self_config, constructed, is_multi_table, fields,
                   data, tables, table_data, outcome, calls, rowBase, rowsEver,
                   gens, lastRows, isRun, lastEntropy, lastOp, validate_calls, held,
                   unit>>

(* the decorator calls _call_ai_api again after the wait *)
RetryAiApi ==
    /\ parser.status = "waiting"
    /\ \E answer \in ApiAnswers : parser' = AfterAttempt(parser, answer)
    /\ UNCHANGED <<rng, callerCfg, self_config, constructed, is_multi_table, fields,
                   data, tables, table_data, outcome, calls, rowBase, rowsEver,
                   gens, lastRows, isRun, lastEntropy, lastOp, validate_calls, held,
                   unit>>

ParseNext == CallAiApi \/ RetryAiApi

ParseSpec == ParseInit /\ [][ParseNext]_vars

----------------------------------------------------------------------------
(* DateField.generate_formatted: the text of a date *)

(* generate_formatted: date_value = self.generate(row_data);               *)
(* return date_value.strftime(self.date_format).  Nothing in the           *)
(* repository calls it: create_field returns the instance and the engine   *)
(* and the tests call generate.                                            *)
DateGenerateFormatted(f, r, n) ==
    LET g == DateGenerate(f, r, n)
    IN  [g EXCEPT !.value = TextVal(Strftime(g.value.v, f.date_format))]

----------------------------------------------------------------------------
(* Properties.  They are stated on what the caller wrote (callerCfg) and   *)
(* on what the engine holds afterwards.                                    *)

Succeeded(e) == outcome[e].status = "returned"

NumTables(e) == IF is_multi_table[e] THEN Len(tables[e]) ELSE 1
StoredRows(e, t) == IF is_multi_table[e] THEN table_data[e][t] ELSE data[e]
DeclsOf(cfg, t) == IF Len(cfg.tables) > 0 THEN cfg.tables[t].fields ELSE cfg.fields
TableNameOf(cfg, t) == IF Len(cfg.tables) > 0 THEN cfg.tables[t].name ELSE ""

HasName(row, name) == \E k \in 1 .. Len(row) : row[k].name = name
ValueOf(row, name) == row[CHOOSE k \in 1 .. Len(row) : row[k].name = name].val

Seeded(cfg) == cfg.config.seed # <<>>
DeclaredSequential(d) ==
    d.type = "integer" /\ d.config.distribution = <<"sequential">>
StartOf(d) == IF d.config.start = <<>> THEN 1 ELSE d.config.start[1]
IncrementOf(d) == IF d.config.increment = <<>> THEN 1 ELSE d.config.increment[1]

(* the row count the configuration asks for, for table t *)
ConfiguredRows(cfg, t) ==
    IF Len(cfg.tables) > 0 /\ cfg.tables[t].config.rows # <<>>
    THEN cfg.tables[t].config.rows[1]
    ELSE IF cfg.config.rows # <<>> THEN cfg.config.rows[1]
    ELSE 100

(* C1: after a successful generate() (rows omitted) every table's stored   *)
(* list (the single list in single-table mode) has exactly the effective   *)
(* row count: the table's own rows if present, else the run-level rows,    *)
(* else 100.                                                               *)
C1_RowCount ==
    \A e \in Engines :
        (Succeeded(e) /\ lastRows[e] = <<>>) =>
            \A t \in 1 .. NumTables(e) :
                Len(StoredRows(e, t)) = ConfiguredRows(callerCfg[e], t)

C1_Witness ==
    \E e \in Engines :
        /\ Succeeded(e) /\ lastRows[e] = <<>> /\ is_multi_table[e]
        /\ \E t1, t2 \in 1 .. NumTables(e) :
              /\ callerCfg[e].tables[t1].config.rows # <<>>
              /\ callerCfg[e].tables[t2].config.rows = <<>>
              /\ Len(table_data[e][t1]) # Len(table_data[e][t2])
              /\ Len(table_data[e][t1]) > 0

(* C2: two independent runs (construct an engine from the schema, then     *)
(* call generate() once) of one schema with an explicit seed produce       *)
(* identical datasets.                                                     *)
C2_Determinism ==
    \A e1, e2 \in Engines :
        (/\ isRun[e1] /\ isRun[e2]
         /\ Succeeded(e1) /\ Succeeded(e2)
         /\ lastRows[e1] = <<>> /\ lastRows[e2] = <<>>
         /\ callerCfg[e1] = callerCfg[e2]
         /\ Seeded(callerCfg[e1]))
        => (data[e1] = data[e2] /\ table_data[e1] = table_data[e2])

(* C3: the k-th generate of a sequential integer field returns             *)
(* start + (k-1)*increment, whatever min/max, the row passed and the       *)
(* random source are.                                                      *)
C3_Sequential ==
    (unit.field.type = "integer" /\ unit.field.distribution = "sequential"
        /\ unit.count >= 1)
    => (/\ ~unit.raised
        /\ unit.value = IntVal(unit.field.start
                               + (unit.count - 1) * unit.field.increment))

C3_Witness ==
    /\ unit.field.type = "integer" /\ unit.field.distribution = "sequential"
    /\ unit.field.start = 100 /\ unit.field.increment = 10
    /\ unit.field.max_value = 30
    /\ unit.count = 3
    /\ unit.value = IntVal(120)

(* C4: an integer field declared with start and increment only (no         *)
(* distribution key) yields start, start+increment, ... in row order when  *)
(* an engine generates the dataset.                                        *)
C4_StartIncrementOnly ==
    \A e \in Engines :
        (Succeeded(e) /\ gens[e] = 1) =>
            \A t \in 1 .. NumTables(e) :
                \A k \in 1 .. Len(DeclsOf(callerCfg[e], t)) :
                    LET d == DeclsOf(callerCfg[e], t)[k] IN
                    (/\ d.type = "integer" /\ d.config.distribution = <<>>
                     /\ d.config.start # <<>> /\ d.config.increment # <<>>)
                    => \A i \in 1 .. Len(StoredRows(e, t)) :
                          /\ HasName(StoredRows(e, t)[i], d.name)
                          /\ ValueOf(StoredRows(e, t)[i], d.name)
                               = IntVal(d.config.start[1]
                                        + (i - 1) * d.config.increment[1])

(* C5: every value of an integer, float or money field of distribution     *)
(* uniform or normal lies within the field's configured min and max.       *)
C5_RangeContainment ==
    \A e \in Engines :
        \A t \in 1 .. NumTables(e) :
            \A k \in 1 .. Len(DeclsOf(callerCfg[e], t)) :
                LET d == DeclsOf(callerCfg[e], t)[k] IN
                (/\ d.type \in {"integer", "float", "money"}
                 /\ d.config.distribution \in {<<"uniform">>, <<"normal">>}
                 /\ d.config.min # <<>> /\ d.config.max # <<>>
                 /\ d.config.min[1] <= d.config.max[1])
                => \A i \in 1 .. Len(StoredRows(e, t)) :
                      HasName(StoredRows(e, t)[i], d.name) =>
                          /\ d.config.min[1] <= ValueOf(StoredRows(e, t)[i], d.name).v
                          /\ ValueOf(StoredRows(e, t)[i], d.name).v <= d.config.max[1]

(* the position of a field name among the declarations of a table, 0 when  *)
(* it is not declared there                                                *)
PositionOf(decls, name) ==
    IF \E k \in 1 .. Len(decls) : decls[k].name = name
    THEN CHOOSE k \in 1 .. Len(decls) : decls[k].name = name
    ELSE 0
TableIndexOf(cfg, table_name) ==
    IF Len(cfg.tables) > 0
    THEN CHOOSE t \in 1 .. Len(cfg.tables) : cfg.tables[t].name = table_name
    ELSE 1
(* the declarations of the table an entry of calls[e] belongs to *)
DeclsAt(e, c) == DeclsOf(callerCfg[e], TableIndexOf(callerCfg[e], c.table))
IsCall(c) == c.ev \in {"call", "raise"}

(* C6: the row handed to the generator of the j-th declared field for row  *)
(* i holds exactly the values generated for declared fields 1..j-1 of that *)
(* same row i, in that order, and nothing else.                            *)
C6_RowSoFar ==
    \A e \in Engines :
        \A p \in 1 .. Len(calls[e]) :
            LET c == calls[e][p]
                decls == DeclsAt(e, c)
                j == PositionOf(decls, c.field)
            IN  IsCall(c) =>
                /\ j >= 1
                /\ Len(c.row_data) = j - 1
                /\ \A m \in 1 .. j - 1 :
                      /\ p - (j - m) >= 1
                      /\ LET q == calls[e][p - (j - m)]
                         IN  /\ q.ev = "call"
                             /\ q.table = c.table
                             /\ q.row = c.row
                             /\ q.field = decls[m].name
                             /\ c.row_data[m] = [name |-> q.field, val |-> q.value]

C6_Witness ==
    \E e \in Engines :
        \E p \in 1 .. Len(calls[e]) :
            /\ IsCall(calls[e][p])
            /\ calls[e][p].row >= 2
            /\ Len(calls[e][p].row_data) >= 1
            /\ calls[e][p].table # ""

(* the configuration with every dependencies list removed *)
WithoutDependencies(cfg) ==
    LET Bare(flds) ==
            [k \in 1 .. Len(flds) |-> [flds[k] EXCEPT !.config.dependencies = <<>>]]
    IN  [cfg EXCEPT !.fields = Bare(@),
                    !.tables = [t \in 1 .. Len(@) |-> [@[t] EXCEPT !.fields = Bare(@)]]]
DependenciesOf(d) ==
    IF d.config.dependencies = <<>> THEN {}
    ELSE {d.config.dependencies[1][n] : n \in 1 .. Len(d.config.dependencies[1])}
RowNames(row) == {row[k].name : k \in 1 .. Len(row)}
(* what the clock read when the date fields of e took their default end_date *)
ClockSeen(e) ==
    << [k \in 1 .. Len(fields[e]) |-> fields[e][k].end_date],
       [t \in 1 .. Len(tables[e]) |->
           [k \in 1 .. Len(tables[e][t].fields) |-> tables[e][t].fields[k].end_date]] >>

C8_CursorPersists ==
    \A e \in Engines :
        \A t \in 1 .. NumTables(e) :
            \A k \in 1 .. Len(DeclsOf(callerCfg[e], t)) :
                LET d == DeclsOf(callerCfg[e], t)[k] IN
                (constructed[e] = "ok" /\ DeclaredSequential(d)) =>
                    \A i \in 1 .. Len(StoredRows(e, t)) :
                        /\ HasName(StoredRows(e, t)[i], d.name)
                        /\ ValueOf(StoredRows(e, t)[i], d.name)
                             = IntVal(StartOf(d)
                                      + (rowBase[e][t] + i - 1) * IncrementOf(d))

C8_Witness ==
    \E e \in Engines :
        /\ gens[e] = 2 /\ Succeeded(e)
        /\ rowBase[e][1] = 3
        /\ Len(StoredRows(e, 1)) = 3
        /\ HasName(StoredRows(e, 1)[1], "id")
        /\ ValueOf(StoredRows(e, 1)[1], "id") = IntVal(130)

(* the rows the last generate() of e appended for table t, in order *)
AppendedRows(e, t) ==
    LET name == TableNameOf(callerCfg[e], t)
        mine == SelectSeq(calls[e], LAMBDA c : c.ev = "append" /\ c.table = name)
    IN  [i \in 1 .. Len(mine) |-> mine[i].row_data]

(* C9: after a successful generate() the stored dataset consists only of   *)
(* the rows that call built: nothing of an earlier call remains in any     *)
(* table.                                                                  *)
C9_FreshDataset ==
    \A e \in Engines :
        Succeeded(e) =>
            \A t \in 1 .. NumTables(e) : StoredRows(e, t) = AppendedRows(e, t)

C9_Witness ==
    \E e \in Engines :
        /\ gens[e] >= 2 /\ Succeeded(e)
        /\ \E t \in 1 .. NumTables(e) :
              /\ rowBase[e][t] >= 1
              /\ Len(StoredRows(e, t)) >= 1
              /\ rowsEver[e][t] = rowBase[e][t] + Len(StoredRows(e, t))

(* C10: in multi-table mode two tables with identical field declarations   *)
(* and different row counts each get a list of their declared length, and  *)
(* a sequential field counts start, start+increment, ... in each of them,  *)
(* whichever of the two is built first.                                    *)
C10_TableIsolation ==
    \A e \in Engines :
        (is_multi_table[e] /\ Succeeded(e) /\ gens[e] = 1) =>
            \A a, b \in 1 .. NumTables(e) :
                (/\ a # b
                 /\ callerCfg[e].tables[a].fields = callerCfg[e].tables[b].fields
                 /\ ConfiguredRows(callerCfg[e], a) # ConfiguredRows(callerCfg[e], b))
                => /\ Len(table_data[e][a]) = ConfiguredRows(callerCfg[e], a)
                   /\ \A k \in 1 .. Len(callerCfg[e].tables[a].fields) :
                         LET d == callerCfg[e].tables[a].fields[k] IN
                         DeclaredSequential(d) =>
                            \A i \in 1 .. Len(table_data[e][a]) :
                                /\ HasName(table_data[e][a][i], d.name)
                                /\ ValueOf(table_data[e][a][i], d.name)
                                     = IntVal(StartOf(d) + (i - 1) * IncrementOf(d))

C10_Witness ==
    \E e \in Engines :
        /\ is_multi_table[e] /\ Succeeded(e) /\ gens[e] = 1
        /\ callerCfg[e].tables[1].fields = callerCfg[e].tables[2].fields
        /\ Len(table_data[e][1]) = 2 /\ Len(table_data[e][2]) = 3
        /\ ValueOf(table_data[e][1][2], "id") = IntVal(2)
        /\ ValueOf(table_data[e][2][1], "id") = IntVal(1)

(* every field declaration of a configuration, with its table name *)
AllDecls(cfg) ==
    {[table |-> "", decl |-> cfg.fields[k]] : k \in 1 .. Len(cfg.fields)}
        \cup UNION {{[table |-> cfg.tables[t].name, decl |-> cfg.tables[t].fields[k]] :
                        k \in 1 .. Len(cfg.tables[t].fields)} : t \in 1 .. Len(cfg.tables)}
UnknownType(d) == d.type \notin FIELD_TYPE_MAPPING

(* C11: a field declaration whose type tag is not in the registry makes    *)
(* construction fail with an error naming the field (and the table in      *)
(* multi-table mode); no engine results from it, so generate() never runs  *)
(* on it and never invokes a field of an unknown type.                     *)
C11_UnknownTypeAtConstruction ==
    \A e \in Engines :
        /\ ((\E x \in AllDecls(callerCfg[e]) : UnknownType(x.decl)) /\ constructed[e] # "no")
              => /\ constructed[e] = "raised"
                 /\ outcome[e].status = "config_error"
                 /\ \E x \in AllDecls(callerCfg[e]) :
                       /\ UnknownType(x.decl)
                       /\ outcome[e].error.field = x.decl.name
                       /\ outcome[e].error.table = x.table
                 /\ gens[e] = 0 /\ calls[e] = <<>>
                 /\ fields[e] = <<>> /\ tables[e] = <<>>
        /\ \A p \in 1 .. Len(calls[e]) :
              IsCall(calls[e][p]) =>
                  \A x \in AllDecls(callerCfg[e]) :
                      (x.table = calls[e][p].table /\ x.decl.name = calls[e][p].field)
                          => ~UnknownType(x.decl)

C11_Witness ==
    \E e1, e2 \in Engines :
        /\ e1 # e2
        /\ constructed[e1] = "raised" /\ constructed[e2] = "raised"
        /\ outcome[e1].error = [table |-> "B", field |-> "r", row |-> 0]
        /\ Len(callerCfg[e1].tables) = 2
        /\ lastOp.op = "construct"

(* the rows a generate() had appended for a table before entry p of its record *)
AppendsBefore(log, p, table_name) ==
    Cardinality({q \in 1 .. p - 1 : log[q].ev = "append" /\ log[q].table = table_name})

(* C12: when a field generator raises while row i of a table is built,     *)
(* generate() raises an error carrying the field name, the 1-based row     *)
(* index i and (in multi-table mode) the table name, and nothing is        *)
(* generated after the raising call: no later field, row or table; the     *)
(* call returns no dataset.                                                *)
C12_GenerationErrorStops ==
    \A e \in Engines :
        /\ outcome[e].status = "raised"
              <=> \E p \in 1 .. Len(calls[e]) : calls[e][p].ev = "raise"
        /\ \A p \in 1 .. Len(calls[e]) :
              calls[e][p].ev = "raise" =>
                  /\ p = Len(calls[e])
                  /\ outcome[e].status = "raised"
                  /\ outcome[e].error.field = calls[e][p].field
                  /\ outcome[e].error.row = calls[e][p].row
                  /\ outcome[e].error.row = AppendsBefore(calls[e], p, calls[e][p].table) + 1
                  /\ outcome[e].error.table
                        = (IF is_multi_table[e] THEN calls[e][p].table ELSE "")
                  /\ is_multi_table[e] => \E t \in 1 .. Len(tables[e]) :
                                             tables[e][t].name = calls[e][p].table

C12_Witness ==
    \E e \in Engines :
        /\ outcome[e] = [status |-> "raised",
                         error |-> [table |-> "B", field |-> "bad", row |-> 1]]
        /\ Len(tables[e]) = 3
        /\ Len(calls[e]) >= 2
        /\ calls[e][Len(calls[e])].ev = "raise"
        /\ calls[e][1].table = "A"

(* C13: after generate() failed with a generation error the stored         *)
(* dataset, which validate(), get_summary() and the exporters read, holds  *)
(* no row that the failed call built.                                      *)
C13_NoPartialDataset ==
    \A e \in Engines :
        outcome[e].status = "raised" =>
            \A t \in 1 .. NumTables(e) :
                \A i \in 1 .. Len(StoredRows(e, t)) :
                    \A j \in 1 .. Len(AppendedRows(e, t)) :
                        StoredRows(e, t)[i] # AppendedRows(e, t)[j]

(* ---- validate() ---- *)

Validated(e) == validate_calls[e].count >= 1
Results(e) == validate_calls[e].results
Validations(e) == callerCfg[e].validations
Unscoped(field) == \A i \in 1 .. Len(field) : field[i] # "."

(* the rows validate() reads: table t (1 in single-table mode), row i, and *)
(* the table key its entries carry                                         *)
TableKey(e, t) == IF is_multi_table[e] THEN <<tables[e][t].name>> ELSE <<>>
HasEntry(e, t, i, j) ==
    \E k \in 1 .. Len(Results(e)) :
        /\ Results(e)[k].table = TableKey(e, t)
        /\ Results(e)[k].row = i
        /\ Results(e)[k].rule = Validations(e)[j].rule
        /\ Results(e)[k].message = Get(Validations(e)[j].message, "")

(* the rule texts of the supported forms, with the comparison and the      *)
(* number (in ticks, or a length) each one states                          *)
ComparisonRules ==
    { [text |-> Rules.AtLeast18,      op |-> ">=", n |-> 18 * Scale],
      [text |-> Rules.AtLeast18Tight, op |-> ">=", n |-> 18 * Scale],
      [text |-> Rules.AtMost18,       op |-> "<=", n |-> 18 * Scale],
      [text |-> Rules.Above18,        op |-> ">",  n |-> 18 * Scale],
      [text |-> Rules.Below18Half,    op |-> "<",  n |-> 18 * Scale + 5] }
LengthRules ==
    { [text |-> Rules.LengthAtLeast3, op |-> ">=", n |-> 3],
      [text |-> Rules.LengthAtMost3,  op |-> "<=", n |-> 3],
      [text |-> Rules.LengthAtMost10, op |-> "<=", n |-> 10] }
SupportedTexts == {r.text : r \in ComparisonRules \cup LengthRules}
Satisfies(x, op, n) ==
    CASE op = ">=" -> x >= n
      [] op = "<=" -> x <= n
      [] op = ">"  -> x > n
      [] op = "<"  -> x < n

(* float(value): whether it succeeds, and the result in ticks.  The        *)
(* strings of kind str hold letters.                                       *)
Coerces(value) == value.k \in {"int", "float", "numstr"}
Coerced(value) == IF value.k = "float" THEN value.v ELSE value.v * Scale

(* C14: a rule whose text is not of a supported form (>= N, <= N, > N,     *)
(* < N, length >= N, length <= N) never produces a violation entry,        *)
(* whatever the value, in single-table and in multi-table mode.            *)
C14_UnsupportedRuleFailsOpen ==
    \A e \in Engines :
        \A k \in 1 .. Len(Results(e)) : Results(e)[k].rule \in SupportedTexts

(* C15: for a rule >= N, <= N, > N or < N on a field present in a row,     *)
(* validate() records a violation exactly when the value does not coerce   *)
(* to float or the coerced value does not satisfy the comparison; a        *)
(* numeric string is judged by its numeric value.                          *)
C15_NumericRule ==
    \A e \in Engines :
        Validated(e) =>
            \A t \in 1 .. NumTables(e) :
                \A i \in 1 .. Len(StoredRows(e, t)) :
                    \A j \in 1 .. Len(Validations(e)) :
                        \A r \in ComparisonRules :
                            LET v == Validations(e)[j]
                                row == StoredRows(e, t)[i]
                            IN  (/\ v.rule = r.text
                                 /\ Unscoped(v.field)
                                 /\ InRow(row, v.field))
                                => (HasEntry(e, t, i, j)
                                      <=> (\/ ~Coerces(RowItem(row, v.field))
                                           \/ ~Satisfies(Coerced(RowItem(row, v.field)),
                                                         r.op, r.n)))

(* C16: for a rule length >= N on a field present in a row, validate()     *)
(* records a violation exactly when the stringified value is shorter than  *)
(* N, and for length <= N exactly when it is longer than N.                *)
C16_LengthRule ==
    \A e \in Engines :
        Validated(e) =>
            \A t \in 1 .. NumTables(e) :
                \A i \in 1 .. Len(StoredRows(e, t)) :
                    \A j \in 1 .. Len(Validations(e)) :
                        \A r \in LengthRules :
                            LET v == Validations(e)[j]
                                row == StoredRows(e, t)[i]
                            IN  (/\ v.rule = r.text
                                 /\ Unscoped(v.field)
                                 /\ InRow(row, v.field))
                                => (HasEntry(e, t, i, j)
                                      <=> ~Satisfies(StrLen(RowItem(row, v.field)),
                                                     r.op, r.n))

(* the field name a validation looks up in the rows of a table: the text   *)
(* itself when it has no dot, the part after "name." when it is scoped to  *)
(* the table, and nothing when it is scoped to another table               *)
ScopedTo(field, name) == StartsWith(field, Spelling(name) \o <<".">>)
AppliesTo(field, name) == Unscoped(field) \/ ScopedTo(field, name)
BareName(field, name) ==
    IF Unscoped(field) THEN field
    ELSE SubSeq(field, Len(Spelling(name)) + 2, Len(field))
HasEntryFor(e, t, i, j, field_name) ==
    \E k \in 1 .. Len(Results(e)) :
        /\ Results(e)[k].table = TableKey(e, t)
        /\ Results(e)[k].row = i
        /\ Results(e)[k].field = field_name
        /\ Results(e)[k].rule = Validations(e)[j].rule
        /\ Results(e)[k].message = Get(Validations(e)[j].message, "")
FailsOn(e, t, i, j) ==
    LET v    == Validations(e)[j]
        row  == StoredRows(e, t)[i]
        bare == BareName(v.field, tables[e][t].name)
    IN  InRow(row, bare) /\ ~IsValid(v.rule, RowItem(row, bare))

(* C17: in multi-table mode a validation written table.field is judged     *)
(* only on the rows of that table, one with an unscoped field name on the   *)
(* rows of every table that has a field of that name, and a row without     *)
(* the field gets no entry: row i of table t has an entry for validation j  *)
(* exactly when the validation applies to the table, the row has the field  *)
(* and the value fails the rule.                                            *)
C17_TableScope ==
    \A e \in Engines :
        (Validated(e) /\ is_multi_table[e]) =>
            \A t \in 1 .. NumTables(e) :
                \A i \in 1 .. Len(StoredRows(e, t)) :
                    \A j \in 1 .. Len(Validations(e)) :
                        \A f \in {Validations(e)[j].field} :
                            /\ (\E k \in 1 .. Len(Results(e)) :
                                    /\ Results(e)[k].table = TableKey(e, t)
                                    /\ Results(e)[k].row = i
                                    /\ Results(e)[k].rule = Validations(e)[j].rule
                                    /\ Results(e)[k].message
                                          = Get(Validations(e)[j].message, ""))
                                => AppliesTo(f, tables[e][t].name)
                            /\ AppliesTo(f, tables[e][t].name)
                                => (HasEntryFor(e, t, i, j, BareName(f, tables[e][t].name))
                                      <=> FailsOn(e, t, i, j))

(* a validation scoped to one table that a row of another table would     *)
(* fail and has no entry for, next to an entry of an unscoped validation   *)
(* and an entry of a scoped one in its own table                           *)
C17_Witness ==
    \E e \in Engines :
        /\ Validated(e) /\ is_multi_table[e]
        /\ \E j \in 1 .. Len(Validations(e)), t \in 1 .. NumTables(e) :
              /\ ~AppliesTo(Validations(e)[j].field, tables[e][t].name)
              /\ \E i \in 1 .. Len(StoredRows(e, t)) :
                    LET bare == SplitField(Validations(e)[j].field).field
                    IN  /\ InRow(StoredRows(e, t)[i], bare)
                        /\ ~IsValid(Validations(e)[j].rule,
                                    RowItem(StoredRows(e, t)[i], bare))
                        /\ ~HasEntry(e, t, i, j)
        /\ \E j \in 1 .. Len(Validations(e)), t \in 1 .. NumTables(e) :
              /\ Unscoped(Validations(e)[j].field)
              /\ \E i \in 1 .. Len(StoredRows(e, t)) : HasEntry(e, t, i, j)
        /\ \E j \in 1 .. Len(Validations(e)), t \in 1 .. NumTables(e) :
              /\ ScopedTo(Validations(e)[j].field, tables[e][t].name)
              /\ \E i \in 1 .. Len(StoredRows(e, t)) : HasEntry(e, t, i, j)

(* the (table, row, validation) triples whose value fails, and the place   *)
(* of one among them when they are ordered by table, then row, then        *)
(* position in the validations list                                        *)
LookedUp(e, t, j) ==
    IF is_multi_table[e] THEN BareName(Validations(e)[j].field, tables[e][t].name)
    ELSE Validations(e)[j].field
Failing(e) ==
    { p \in (1 .. NumTables(e)) \X (1 .. MaxDataRows) \X (1 .. Len(Validations(e))) :
        /\ p[2] <= Len(StoredRows(e, p[1]))
        /\ is_multi_table[e]
              => AppliesTo(Validations(e)[p[3]].field, tables[e][p[1]].name)
        /\ InRow(StoredRows(e, p[1])[p[2]], LookedUp(e, p[1], p[3]))
        /\ ~IsValid(Validations(e)[p[3]].rule,
                    RowItem(StoredRows(e, p[1])[p[2]], LookedUp(e, p[1], p[3]))) }
Before(p, q) ==
    \/ p[1] < q[1]
    \/ p[1] = q[1] /\ p[2] < q[2]
    \/ p[1] = q[1] /\ p[2] = q[2] /\ p[3] <= q[3]
PlaceOf(e, q) == Cardinality({p \in Failing(e) : Before(p, q)})

(* C18: validate() returns one entry for every failing (row, validation)   *)
(* pair and none for a passing one, ordered by table in declaration order,  *)
(* then by row, then by the position of the validation in the list; an      *)
(* entry carries the row number counted from 1, the field, the value, the   *)
(* rule and the message, and a table name in multi-table mode only.         *)
C18_EncounterOrder ==
    \A e \in Engines :
        Validated(e) =>
            /\ Len(Results(e)) = Cardinality(Failing(e))
            /\ \A q \in Failing(e) :
                  Results(e)[PlaceOf(e, q)]
                    = [table   |-> IF is_multi_table[e] THEN <<tables[e][q[1]].name>>
                                   ELSE <<>>,
                       row     |-> q[2],
                       field   |-> LookedUp(e, q[1], q[3]),
                       value   |-> RowItem(StoredRows(e, q[1])[q[2]],
                                           LookedUp(e, q[1], q[3])),
                       rule    |-> Validations(e)[q[3]].rule,
                       message |-> Get(Validations(e)[q[3]].message, ""),
                       valid   |-> FALSE]

(* a returned list with two entries of one row, for two validations, and   *)
(* entries of two rows                                                     *)
C18_Witness ==
    \E e \in Engines :
        /\ Validated(e)
        /\ \E k \in 1 .. Len(Results(e)) - 1 :
              /\ Results(e)[k].row = Results(e)[k + 1].row
              /\ Results(e)[k].rule # Results(e)[k + 1].rule
        /\ \E k \in 1 .. Len(Results(e)) - 1 :
              Results(e)[k].row < Results(e)[k + 1].row
        /\ \E q \in Failing(e) : q[2] = 2 /\ PlaceOf(e, q) = Len(Results(e))

(* C19: validate() only reads: a call leaves the stored rows of every      *)
(* table, every field instance with its cursor, the random source, the     *)
(* entropy and clock records and the outcome of generate() as they were,   *)
(* it returns a list instead of raising, and a call that follows another   *)
(* validate() call returns the list the earlier call returned.             *)
C19_ValidateReadsOnly ==
    [][ \A e \in Engines :
          (lastOp' = [op |-> "validate", e |-> e]
             /\ validate_calls'[e].count = validate_calls[e].count + 1)
          => /\ UNCHANGED <<rng, data, table_data, fields, tables, outcome,
                            self_config, callerCfg, rowBase, rowsEver, gens,
                            lastEntropy, constructed>>
             /\ \A k \in 1 .. Len(validate_calls'[e].results) :
                   validate_calls'[e].results[k].valid = FALSE
             /\ validate_calls[e].count >= 1
                  => validate_calls'[e].results = validate_calls[e].results ]_vars

(* a second validate() call that returned violations *)
C19_Witness ==
    \E e \in Engines :
        /\ validate_calls[e].count = 2
        /\ lastOp = [op |-> "validate", e |-> e]
        /\ Len(validate_calls[e].results) >= 1
        /\ validate_calls[e].previous = validate_calls[e].results
        /\ NumTables(e) >= 1 /\ Len(StoredRows(e, 1)) >= 1

(* the shapes of a configuration *)
HasFields(cfg) == Len(cfg.fields) > 0
HasTables(cfg) == Len(cfg.tables) > 0
ExactlyOneShape(cfg) == HasFields(cfg) # HasTables(cfg)

(* C20: a configuration with neither a fields mapping nor a tables mapping, *)
(* or with both, fails at construction with a configuration error, so that  *)
(* generate() runs only on engines built from exactly one of the two.       *)
C20_ExactlyOneShape ==
    \A e \in Engines :
        /\ (constructed[e] # "no" /\ ~ExactlyOneShape(callerCfg[e]))
              => /\ constructed[e] = "raised"
                 /\ outcome[e].status = "config_error"
        /\ gens[e] > 0 => ExactlyOneShape(callerCfg[e])

(* ---- DateField ---- *)

IsDateUnit == unit.field.type \in {"date", "datetime"} /\ unit.count > 0 /\ ~unit.raised
LastDay(f) == IF f.end_date <= f.start_date THEN f.start_date ELSE f.end_date

(* C21: every value a date field generates is a string, the rendering in   *)
(* the field's format of a day between start_date and end_date; when       *)
(* end_date <= start_date it renders start_date.                           *)
C21_DateString ==
    IsDateUnit =>
        \E d \in unit.field.start_date .. LastDay(unit.field) :
            unit.value = TextVal(Strftime(d, unit.field.date_format))

(* C22: a successful generate(rows=n) leaves n rows in every table,        *)
(* whatever the configured row counts, for every n and in both modes, and  *)
(* generate() with rows omitted leaves the configured row count.           *)
C22_RowsArgument ==
    \A e \in Engines :
        Succeeded(e) =>
            \A t \in 1 .. NumTables(e) :
                Len(StoredRows(e, t)) = IF lastRows[e] = <<>>
                                        THEN ConfiguredRows(callerCfg[e], t)
                                        ELSE lastRows[e][1]

(* the record of e's last generate() for table t, in order, and the field  *)
(* calls and the appends in it                                             *)
EventsOf(e, t) ==
    SelectSeq(calls[e], LAMBDA c : c.table = TableNameOf(callerCfg[e], t))
Appends(events) == SelectSeq(events, LAMBDA c : c.ev = "append")
CallsOf(events, name) == SelectSeq(events, LAMBDA c : IsCall(c) /\ c.field = name)

(* C23: within a table the rows are built in index order and stored in     *)
(* build order: in the record of a generate() the row numbers of a table   *)
(* never go back and go up after every append, so every field call of row  *)
(* i precedes the append of row i and every event of a later row follows   *)
(* it; after a successful call the row stored at place i is the i-th row   *)
(* appended, built as row i; and the value of a sequential field there is  *)
(* the outcome of its i-th invocation in that call, i - 1 invocations      *)
(* having gone before.                                                     *)
C23_BuildOrder ==
    \A e \in Engines :
        \A t \in 1 .. NumTables(e) :
            \A events \in {EventsOf(e, t)} :
                /\ \A p \in 1 .. Len(events) - 1 :
                      /\ events[p].row <= events[p + 1].row
                      /\ events[p].ev = "append" => events[p].row < events[p + 1].row
                /\ Succeeded(e) =>
                      \A appends \in {Appends(events)} :
                          /\ Len(appends) = Len(StoredRows(e, t))
                          /\ \A i \in 1 .. Len(appends) :
                                /\ appends[i].row = i
                                /\ appends[i].row_data = StoredRows(e, t)[i]
                          /\ \A k \in 1 .. Len(DeclsOf(callerCfg[e], t)) :
                                \A d \in {DeclsOf(callerCfg[e], t)[k]} :
                                    DeclaredSequential(d) =>
                                        \A mine \in {CallsOf(events, d.name)} :
                                            /\ Len(mine) = Len(appends)
                                            /\ \A i \in 1 .. Len(mine) :
                                                  /\ mine[i].row = i
                                                  /\ mine[i].value
                                                       = ValueOf(StoredRows(e, t)[i], d.name)
                                                  /\ mine[i].value
                                                       = IntVal(mine[1].value.v
                                                                + (i - 1) * IncrementOf(d))

(* a successful generate() that stored three different rows of a table     *)
(* with a sequential field                                                 *)
C23_Witness ==
    \E e \in Engines :
        /\ Succeeded(e)
        /\ \E t \in 1 .. NumTables(e) :
              /\ Len(StoredRows(e, t)) = 3
              /\ StoredRows(e, t)[1] # StoredRows(e, t)[3]
              /\ \E k \in 1 .. Len(DeclsOf(callerCfg[e], t)) :
                    /\ DeclaredSequential(DeclsOf(callerCfg[e], t)[k])
                    /\ IncrementOf(DeclsOf(callerCfg[e], t)[k]) # 0
              /\ Len(DeclsOf(callerCfg[e], t)) >= 2

(* ---- the random source ---- *)

GenerateStep(e) ==
    lastOp' = [op |-> "generate", e |-> e] /\ gens'[e] = gens[e] + 1
ConstructStep(e) ==
    lastOp' = [op |-> "construct", e |-> e] /\ constructed[e] = "no"
        /\ constructed'[e] # "no"

(* C24: the random source is seeded at construction only: a generate()     *)
(* goes on from the position the source is at, which is where the call    *)
(* before it stopped, without ever going back; the construction of an      *)
(* engine with an explicit seed puts the source at the start of that       *)
(* seed's sequence.                                                        *)
C24_SeededAtConstructionOnly ==
    [][ \A e \in Engines :
          /\ GenerateStep(e) => (rng'.seed = rng.seed /\ rng'.pos >= rng.pos)
          /\ (ConstructStep(e) /\ Seeded(self_config[e]))
                => rng' = Reseed(self_config[e].config.seed[1]) ]_vars

(* two generate() calls of one seeded engine, the other engine not built:  *)
(* the source stands after the draws of both calls                         *)
C24_Witness ==
    \E e \in Engines :
        /\ gens[e] = 2 /\ Succeeded(e) /\ Seeded(callerCfg[e])
        /\ \A o \in Engines \ {e} : constructed[o] = "no"
        /\ ~is_multi_table[e] /\ lastRows[e] = <<1>>
        /\ Len(data[e]) = 1
        /\ rng.seed = callerCfg[e].config.seed[1]
        /\ rng.pos > Len(SelectSeq(calls[e], IsCall))
        /\ rng.pos > 0 /\ Len(calls[e]) > 0

(* C25: the configuration the caller handed over is never changed: after   *)
(* the construction of an engine and after any number of generate() calls  *)
(* it equals what the caller passed in, every field declaration and its    *)
(* config mapping included, for every field kind.                          *)
C25_SchemaImmutable ==
    \A e \in Engines : self_config[e] = callerCfg[e]

(* the place of a field call: table, row, position of the field among the  *)
(* declarations of its table                                               *)
PlaceOfCall(e, c) ==
    <<TableIndexOf(callerCfg[e], c.table), c.row, PositionOf(DeclsAt(e, c), c.field)>>
Earlier(a, b) ==
    \/ a[1] < b[1]
    \/ a[1] = b[1] /\ a[2] < b[2]
    \/ a[1] = b[1] /\ a[2] = b[2] /\ a[3] < b[3]
DeclaredUniform(d) ==
    /\ d.type = "integer" /\ d.config.distribution \in {<<>>, <<"uniform">>}
    /\ d.config.min # <<>> /\ d.config.max # <<>>

(* C26: the engines of a process share one random sequence.  The           *)
(* construction of an engine with a seed puts it at the start of that      *)
(* seed's sequence, whoever generates next; a construction without a seed  *)
(* leaves it where it is; a generate() draws from it where it stands,      *)
(* call after call in the order table, row, declared field, each call      *)
(* going on where the one before stopped, so that a uniformly drawn        *)
(* integer is the draw of the seed last set (by whichever engine) at the   *)
(* position reached.                                                       *)
C26_SharedSequence ==
    [][ \A e \in Engines :
          /\ (ConstructStep(e) /\ Seeded(callerCfg[e]))
                => rng' = [seed |-> callerCfg[e].config.seed[1], pos |-> 0]
          /\ (ConstructStep(e) /\ ~Seeded(callerCfg[e])) => rng' = rng
          /\ GenerateStep(e) =>
                \A log \in {SelectSeq(calls'[e], IsCall)} :
                    /\ rng' = IF Len(log) = 0 THEN rng ELSE log[Len(log)].after
                    /\ \A p \in 1 .. Len(log) :
                          \A before \in {IF p = 1 THEN rng ELSE log[p - 1].after} :
                              /\ log[p].after.seed = rng.seed
                              /\ log[p].after.pos >= before.pos
                              /\ p > 1 => Earlier(PlaceOfCall(e, log[p - 1]),
                                                  PlaceOfCall(e, log[p]))
                              /\ \A d \in {DeclsAt(e, log[p])[PlaceOfCall(e, log[p])[3]]} :
                                    (DeclaredUniform(d) /\ log[p].ev = "call")
                                    => /\ log[p].after.pos = before.pos + 1
                                       /\ log[p].value
                                            = IntVal(Randint([seed |-> rng.seed,
                                                              pos |-> before.pos],
                                                             d.config.min[1],
                                                             d.config.max[1])) ]_vars

(* engine e1 built with one seed, then e2 with another, then e1 generates  *)
(* first: the sequence it drew from is the one of e2's seed                *)
C26_Witness ==
    \E e1, e2 \in Engines :
        /\ e1 < e2
        /\ constructed[e1] = "ok" /\ constructed[e2] = "ok"
        /\ Seeded(callerCfg[e1]) /\ Seeded(callerCfg[e2])
        /\ callerCfg[e1].config.seed # callerCfg[e2].config.seed
        /\ gens[e1] = 1 /\ gens[e2] = 0 /\ Succeeded(e1)
        /\ lastOp = [op |-> "generate", e |-> e1]
        /\ rng.seed = callerCfg[e2].config.seed[1]
        /\ rng.pos > 0
        /\ \E p \in 1 .. Len(calls[e1]) :
              /\ IsCall(calls[e1][p])
              /\ DeclaredUniform(DeclsAt(e1, calls[e1][p])
                                    [PositionOf(DeclsAt(e1, calls[e1][p]),
                                                calls[e1][p].field)])

(* C27: the dataset object an earlier generate() returned is not altered   *)
(* by a later generate() on the same engine: what the caller received the  *)
(* first time still holds the rows of that call, in single-table and in    *)
(* multi-table mode.                                                       *)
C27_ReturnedDatasetKept ==
    \A e \in Engines : held[e].has => held[e].now = held[e].first

(* the rows the generate() just made appended for table t, in order *)
AppendedNow(e, t) ==
    LET mine == SelectSeq(calls'[e], LAMBDA c : c.ev = "append"
                                       /\ c.table = TableNameOf(callerCfg[e], t))
    IN  [i \in 1 .. Len(mine) |-> mine[i].row_data]

C29_IdCardRoundTrip ==
    (unit.field.type = "id_card" /\ unit.count > 0 /\ ~unit.raised)
    => /\ unit.value.k = "text" /\ Len(unit.value.v) = 18
       /\ unit.value.v[18]
            = check_codes[(WeightedSum(unit.value.v, GenerateWeights, 1) % 11) + 1]
       /\ unit.valid # <<>> => unit.valid = <<TRUE>>

(* ---- SchemaParser ---- *)

TransientAnswers == {"RateLimitError", "APITimeoutError", "APIConnectionError"}
OtherApiErrors == {"BadRequestError", "AuthenticationError"}

(* C30: _call_ai_api is attempted at most max_retries times; a timeout, a  *)
(* connection error or a rate-limit error is retried until that bound and  *)
(* then the last error is raised to the caller; any other API error        *)
(* becomes SchemaParseError at the attempt that met it, with no retry.     *)
C30_RetryBound ==
    parser.attempts > 0 =>
        \A last \in {parser.log[Len(parser.log)]} :
            /\ parser.attempts <= parser.max_retries
            /\ last \in TransientAnswers =>
                    /\ parser.status = IF parser.attempts < parser.max_retries
                                       THEN "waiting" ELSE "raised"
                    /\ parser.error = CallBody(last)
            /\ \A i \in 1 .. Len(parser.log) :
                    parser.log[i] \in OtherApiErrors =>
                        /\ i = Len(parser.log)
                        /\ parser.status = "raised"
                        /\ parser.error = "SchemaParseError"

====
